---- MODULE Spec2Model ----
(***************************************************************************)
(* Model of the liqpay_rs request dispatch: client.rs (LiqPayClient and    *)
(* blocking::BlockLiqPayClient), the older trait-based dispatch of         *)
(* traits.rs, and the request / response schemas they operate over.        *)
(*                                                                         *)
(* Text is modelled as a sequence of string tokens.  The codecs of the     *)
(* external libraries are kept as injective bracketings of their input:    *)
(*   base64 of x        <<"b64(">> \o x \o <<")">>                         *)
(*   Sha1 digest of x   <<"Sha1(">> \o x \o <<")">>  (Sha3_256 alike)      *)
(*   JSON object        <<"{", name, tag, value, ..., "}">> with one       *)
(*                      (name, tag, value) triple per emitted field, tag   *)
(*                      being "str", "num", "bool" or "null"               *)
(* so that concatenation (\o) is the concatenation of the code.            *)
(***************************************************************************)
EXTENDS Integers, Sequences, FiniteSets, TLC

\* ------------------------------------------------------------------ bounds
MaxDispatch == 2
\* builder calls made on one value
MaxCalls == 2

Slots == 1..MaxDispatch

\* --------------------------------------------------------------- constants
CLIENT_URL == "https://www.liqpay.ua/api/request"
DATA == "data"
SIGNATURE == "signature"

None == <<>>
Some(v) == <<v>>

\* keys a caller may construct a client with
Secret == <<"s", "e", "c", "r", "e", "t">>
OtherKey == <<"k", "2">>
Keys == {Secret, OtherKey}
\* keys a caller passes to the trait methods of traits.rs
TraitKeys == {Secret}

\* f64 values a caller may pass as amount
FiniteAmounts == {"10.0"}
NonFiniteAmounts == {"NaN"}

\* ------------------------------------------------------- request schemas
\* A request value is [type, serializable, fields]; fields lists the struct's
\* fields in declaration order.  A field is [name, value, skip]: value is an
\* Option (None or Some(v)) for an Option<T> field and Some(v) for a required
\* one, v is <<"str", s>> or <<"f64", x>>; skip is TRUE when the field carries
\* #[serde(skip_serializing_if = "Option::is_none")].
Req(name, v) == [name |-> name, value |-> Some(v), skip |-> FALSE]
Opt(name, o) == [name |-> name, value |-> o, skip |-> TRUE]
Str(s) == <<"str", s>>
F64(x) == <<"f64", x>>
Bool(b) == <<"bool", b>>

\* self.<name> = Some(v)
SetField(value, name, v) ==
    [value EXCEPT !.fields =
        [k \in DOMAIN @ |->
            IF @[k].name = name THEN [@[k] EXCEPT !.value = Some(v)] ELSE @[k]]]

\* CardPaymentRequest::new: version 7, action pay, every option None.
\* Of the optional fields the model keeps card_cvv, ip and phone.
CardPaymentRequest_new(public_key, amount, order_id) ==
    [type |-> "CardPaymentRequest",
     serializable |-> TRUE,
     fields |-> << Req("version", Str("7")),
                   Req("public_key", Str(public_key)),
                   Req("action", Str("pay")),
                   Req("amount", F64(amount)),
                   Req("card", Str("4242")),
                   Req("card_exp_month", Str("12")),
                   Req("card_exp_year", Str("30")),
                   Req("currency", Str("UAH")),
                   Req("order_id", Str(order_id)),
                   Req("description", Str("d")),
                   Opt("card_cvv", None),
                   Opt("ip", None),
                   Opt("phone", None) >>]

\* TokenPaymentRequest::new: version 3, action pay, every option None.
\* Of the optional fields the model keeps ip and phone.
TokenPaymentRequest_new(public_key, amount, order_id) ==
    [type |-> "TokenPaymentRequest",
     serializable |-> TRUE,
     fields |-> << Req("version", Str("3")),
                   Req("public_key", Str(public_key)),
                   Req("action", Str("pay")),
                   Req("amount", F64(amount)),
                   Req("card_token", Str("tok")),
                   Req("currency", Str("UAH")),
                   Req("order_id", Str(order_id)),
                   Req("description", Str("d")),
                   Opt("ip", None),
                   Opt("phone", None) >>]

\* A request type written by the caller (send is generic over
\* Req: LiqPayRequest<Resp, Alg> + Serialize) whose Serialize impl fails.
CallerRequest ==
    [type |-> "CallerRequest",
     serializable |-> FALSE,
     fields |-> << Req("order_id", Str("Z9")) >>]

Requests ==
    {CardPaymentRequest_new("pk", a, "A1") : a \in FiniteAmounts \cup NonFiniteAmounts}
    \cup {TokenPaymentRequest_new("pk", a, "B2") : a \in FiniteAmounts}
    \cup {CallerRequest}

\* ------------------------------------------- request types of the crate
\* One record per source file: the request values its constructors make,
\* its impl LiqPayRequest lines and the schemas of its response structs.
\* Every struct of the source that carries a version, as its constructors
\* leave it.  Of the required fields the rows keep version, public_key and
\* action, in declaration order; of the Option fields they keep every one
\* without skip_serializing_if, every one a constructor sets, and the first
\* two of the others; CreateTokenRequest and P2PCreditRequest keep every
\* field but the required payment data, CardPaymentRequest keeps its two
\* wallet options and the company requests their agent fees.  The
\* directory informational repeats the type names
\* of information: its types are written informational::Name.
Value(type, fields) == [type |-> type, serializable |-> TRUE, fields |-> fields]
Version(v) == Req("version", Str(v))
PublicKey == Req("public_key", Str("pk"))
Action(a) == Req("action", Str(a))
\* an Option field with skip_serializing_if, None / set by the constructor
Skipped(name) == Opt(name, None)
SkippedSome(name) == Opt(name, Some(Str("x")))
\* an Option field without the attribute
Nullable(name) == [name |-> name, value |-> None, skip |-> FALSE]

\* information/add_data.rs: AddDataRequest::new
information_add_data ==
    [requests |->
        { Value("AddDataRequest",
              << Version("7"), PublicKey, Action("data") >>) },
     bindings |->
        { [request |-> "AddDataRequest", response |-> "AddDataResponse",
           alg |-> "Sha3_256"] },
     responses |->
        { [type |-> "AddDataResponse", result |-> "enums::Result",
           status |-> "enums::Status",
           order_id |-> TRUE] }]

\* information/archive.rs: ArchiveRequest::new
information_archive ==
    [requests |->
        { Value("ArchiveRequest",
              << Version("7"), PublicKey, Action("reports") >>) },
     bindings |->
        { [request |-> "ArchiveRequest", response |-> "ArchiveResponse",
           alg |-> "Sha3_256"] },
     responses |->
        { [type |-> "ArchiveResponse", result |-> "information::common::Result",
           status |-> "Option<enums::Status>",
           order_id |-> FALSE] }]

\* information/receipt.rs: SendReceiptRequest::new
information_receipt ==
    [requests |->
        { Value("SendReceiptRequest",
              << Version("7"), PublicKey, Action("ticket"), Skipped("payment_id"), Skipped("language") >>) },
     bindings |->
        { [request |-> "SendReceiptRequest", response |-> "SendReceiptResponse",
           alg |-> "Sha3_256"] },
     responses |->
        { [type |-> "SendReceiptResponse", result |-> "enums::Result",
           status |-> "Option<enums::Status>",
           order_id |-> FALSE] }]

\* information/registry.rs: CompensationReportRequest::by_compensation_id,
\*   CompensationReportRequest::by_date,
\*   RegistryRequest::new,
\*   CompensationReportFileRequest::by_date,
\*   CompensationReportFileRequest::by_compensation_id,
\*   CompensationReportFileStatusRequest::new,
\*   P2PCompensationReportFileRequest::p2p,
\*   P2PCompensationReportFileRequest::p2p_credit
information_registry ==
    [requests |->
        { Value("CompensationReportRequest",
              << Version("7"), PublicKey, Action("reports_compensation"), SkippedSome("compensation_id"), Skipped("date") >>),
          Value("CompensationReportRequest",
              << Version("7"), PublicKey, Action("reports_compensation"), Skipped("compensation_id"), SkippedSome("date") >>),
          Value("RegistryRequest",
              << Version("7"), Action("register"), PublicKey >>),
          Value("CompensationReportFileRequest",
              << Version("7"), Action("reports_compensation_file"), PublicKey, Skipped("compensation_id"), SkippedSome("date") >>),
          Value("CompensationReportFileRequest",
              << Version("7"), Action("reports_compensation_file"), PublicKey, SkippedSome("compensation_id"), Skipped("date") >>),
          Value("CompensationReportFileStatusRequest",
              << Version("7"), Action("reports_compensation_file_status"), PublicKey >>),
          Value("P2PCompensationReportFileRequest",
              << Version("7"), Action("reports_compensation_file"), PublicKey >>) },
     bindings |->
        { [request |-> "CompensationReportRequest", response |-> "CompensationReportResponse",
           alg |-> "Sha3_256"],
          [request |-> "RegistryRequest", response |-> "RegistryResponse",
           alg |-> "Sha3_256"],
          [request |-> "CompensationReportFileRequest", response |-> "CompensationReportFileResposne",
           alg |-> "Sha3_256"],
          [request |-> "CompensationReportFileStatusRequest", response |-> "CompensationReportFileStatusResponse",
           alg |-> "Sha3_256"],
          [request |-> "P2PCompensationReportFileRequest", response |-> "CompensationReportFileResposne",
           alg |-> "Sha3_256"] },
     responses |->
        { [type |-> "CompensationReportResponse", result |-> "enums::Result",
           status |-> "Option<enums::Status>",
           order_id |-> FALSE],
          [type |-> "RegistryResponse", result |-> "enums::Result",
           status |-> "Option<enums::Status>",
           order_id |-> FALSE],
          [type |-> "CompensationReportFileResposne", result |-> "enums::Result",
           status |-> "Option<enums::Status>",
           order_id |-> FALSE],
          [type |-> "CompensationReportFileStatusResponse", result |-> "enums::Result",
           status |-> "Option<enums::Status>",
           order_id |-> FALSE] }]

\* information/status.rs: StatusRequest::new
information_status ==
    [requests |->
        { Value("StatusRequest",
              << Version("7"), PublicKey, Action("status") >>) },
     bindings |->
        { [request |-> "StatusRequest", response |-> "StatusResponse",
           alg |-> "Sha3_256"] },
     responses |->
        { [type |-> "StatusResponse", result |-> "enums::Result",
           status |-> "enums::Status",
           order_id |-> TRUE] }]

\* informational/add_data.rs: AddDataRequest::new
informational_add_data ==
    [requests |->
        { Value("informational::AddDataRequest",
              << Version("7"), PublicKey, Action("data") >>) },
     bindings |->
        { [request |-> "informational::AddDataRequest", response |-> "informational::AddDataResponse",
           alg |-> "Sha3_256"] },
     responses |->
        { [type |-> "informational::AddDataResponse", result |-> "enums::Result",
           status |-> "enums::Status",
           order_id |-> TRUE] }]

\* informational/archive.rs: ArchiveRequest::new
informational_archive ==
    [requests |->
        { Value("informational::ArchiveRequest",
              << Version("7"), PublicKey, Action("reports") >>) },
     bindings |->
        { [request |-> "informational::ArchiveRequest", response |-> "informational::ArchiveResponse",
           alg |-> "Sha3_256"] },
     responses |->
        { [type |-> "informational::ArchiveResponse", result |-> "informational::archive::Result",
           status |-> "Option<enums::Status>",
           order_id |-> FALSE] }]

\* informational/receipt.rs: SendReceiptRequest::new
informational_receipt ==
    [requests |->
        { Value("informational::SendReceiptRequest",
              << Version("7"), PublicKey, Action("ticket"), Skipped("payment_id"), Skipped("language") >>) },
     bindings |->
        { [request |-> "informational::SendReceiptRequest", response |-> "informational::SendReceiptResponse",
           alg |-> "Sha3_256"] },
     responses |->
        { [type |-> "informational::SendReceiptResponse", result |-> "enums::Result",
           status |-> "Option<enums::Status>",
           order_id |-> FALSE] }]

\* informational/registry.rs: CompensationReportRequest::by_compensation_id,
\*   CompensationReportRequest::by_date,
\*   RegistryRequest::new,
\*   CompensationReportFileRequest::by_date,
\*   CompensationReportFileRequest::by_compensation_id,
\*   CompensationReportFileStatusRequest::new,
\*   P2PCompensationReportFileRequest::new
informational_registry ==
    [requests |->
        { Value("informational::CompensationReportRequest",
              << Version("7"), PublicKey, Action("reports_compensation"), SkippedSome("compensation_id"), Skipped("date") >>),
          Value("informational::CompensationReportRequest",
              << Version("7"), PublicKey, Action("reports_compensation"), Skipped("compensation_id"), SkippedSome("date") >>),
          Value("informational::RegistryRequest",
              << Version("7"), Action("register"), PublicKey >>),
          Value("informational::CompensationReportFileRequest",
              << Version("7"), Action("reports_compensation_file"), PublicKey, Skipped("compensation_id"), SkippedSome("date") >>),
          Value("informational::CompensationReportFileRequest",
              << Version("7"), Action("reports_compensation_file"), PublicKey, SkippedSome("compensation_id"), Skipped("date") >>),
          Value("informational::CompensationReportFileStatusRequest",
              << Version("7"), Action("reports_compensation_file_status"), PublicKey >>),
          Value("informational::P2PCompensationReportFileRequest",
              << Version("7"), Action("reports_compensation_file"), PublicKey >>) },
     bindings |->
        { [request |-> "informational::CompensationReportRequest", response |-> "informational::CompensationReportResponse",
           alg |-> "Sha3_256"],
          [request |-> "informational::RegistryRequest", response |-> "informational::RegistryResponse",
           alg |-> "Sha3_256"],
          [request |-> "informational::CompensationReportFileRequest", response |-> "informational::CompensationReportFileResponse",
           alg |-> "Sha3_256"],
          [request |-> "informational::CompensationReportFileStatusRequest", response |-> "informational::CompensationReportFileStatusResponse",
           alg |-> "Sha3_256"],
          [request |-> "informational::P2PCompensationReportFileRequest", response |-> "informational::CompensationReportFileResponse",
           alg |-> "Sha3_256"] },
     responses |->
        { [type |-> "informational::CompensationReportResponse", result |-> "enums::Result",
           status |-> "Option<enums::Status>",
           order_id |-> FALSE],
          [type |-> "informational::RegistryResponse", result |-> "enums::Result",
           status |-> "Option<enums::Status>",
           order_id |-> FALSE],
          [type |-> "informational::CompensationReportFileResponse", result |-> "enums::Result",
           status |-> "Option<enums::Status>",
           order_id |-> FALSE],
          [type |-> "informational::CompensationReportFileStatusResponse", result |-> "enums::Result",
           status |-> "Option<enums::Status>",
           order_id |-> FALSE] }]

\* informational/status.rs: StatusRequest::new
informational_status ==
    [requests |->
        { Value("informational::StatusRequest",
              << Version("7"), PublicKey, Action("status") >>) },
     bindings |->
        { [request |-> "informational::StatusRequest", response |-> "informational::StatusResponse",
           alg |-> "Sha3_256"] },
     responses |->
        { [type |-> "informational::StatusResponse", result |-> "enums::Result",
           status |-> "enums::Status",
           order_id |-> TRUE] }]

\* internet_acquiring/card.rs: CardPaymentRequest::new, with the two wallet
\* options pay_type (written paytype) and tavv that follow phone
internet_acquiring_card ==
    [requests |->
        { [CardPaymentRequest_new("pk", "10.0", "A1") EXCEPT
              !.fields = @ \o << Skipped("paytype"), Skipped("tavv") >>] },
     bindings |->
        { [request |-> "CardPaymentRequest", response |-> "CardPaymentResponse",
           alg |-> "Sha3_256"] },
     responses |->
        { [type |-> "CardPaymentResponse", result |-> "enums::Result",
           status |-> "enums::Status",
           order_id |-> TRUE] }]

\* internet_acquiring/cash.rs: CashPaymentRequest::new
internet_acquiring_cash ==
    [requests |->
        { Value("CashPaymentRequest",
              << Version("7"), PublicKey, Action("paycash"), Skipped("ip"), Skipped("phone") >>) },
     bindings |->
        { [request |-> "CashPaymentRequest", response |-> "CashPaymentResponse",
           alg |-> "Sha3_256"] },
     responses |->
        { [type |-> "CashPaymentResponse", result |-> "enums::Result",
           status |-> "enums::Status",
           order_id |-> TRUE] }]

\* internet_acquiring/invoice.rs: SendInvoiceRequest::new,
\*   CancelInvoiceRequest::new,
\*   InvoiceUnitsRequest::by_language,
\*   InvoiceUnitsRequest::full
internet_acquiring_invoice ==
    [requests |->
        { Value("SendInvoiceRequest",
              << Version("7"), PublicKey, Action("invoice_send"), Skipped("description"), Skipped("phone") >>),
          Value("CancelInvoiceRequest",
              << Version("7"), PublicKey, Action("invoice_cancel") >>),
          Value("InvoiceUnitsRequest",
              << Version("3"), Action("invoice_units_get_list_by_lang"), PublicKey, Skipped("hide_name_lang"), SkippedSome("language") >>),
          Value("InvoiceUnitsRequest",
              << Version("3"), Action("invoice_units_get_list"), PublicKey, Skipped("hide_name_lang"), Skipped("language") >>) },
     bindings |->
        { [request |-> "SendInvoiceRequest", response |-> "SendInvoiceResponse",
           alg |-> "Sha3_256"],
          [request |-> "CancelInvoiceRequest", response |-> "CancelInvoiceResponse",
           alg |-> "Sha3_256"],
          [request |-> "InvoiceUnitsRequest", response |-> "InvoiceUnitsResponse",
           alg |-> "Sha1"] },
     responses |->
        { [type |-> "SendInvoiceResponse", result |-> "enums::Result",
           status |-> "enums::Status",
           order_id |-> TRUE],
          [type |-> "CancelInvoiceResponse", result |-> "enums::Result",
           status |-> "none",
           order_id |-> FALSE],
          [type |-> "InvoiceUnitsResponse", result |-> "enums::Result",
           status |-> "enums::Status",
           order_id |-> FALSE] }]

\* internet_acquiring/qr_code.rs: DynamicQrCodeRequest::new,
\*   StaticQrCodeRequest::new
internet_acquiring_qr_code ==
    [requests |->
        { Value("DynamicQrCodeRequest",
              << Version("7"), PublicKey, Action("payqr"), Skipped("ip"), Skipped("language") >>),
          Value("StaticQrCodeRequest",
              << Version("7"), PublicKey, Action("staticQrCreate"), Nullable("server_url"), Nullable("final_date") >>) },
     bindings |->
        { [request |-> "DynamicQrCodeRequest", response |-> "DynamicQrCodeResponse",
           alg |-> "Sha3_256"],
          [request |-> "StaticQrCodeRequest", response |-> "StaticQrCodeResponse",
           alg |-> "Sha3_256"] },
     responses |->
        { [type |-> "DynamicQrCodeResponse", result |-> "enums::Result",
           status |-> "enums::Status",
           order_id |-> TRUE],
          [type |-> "StaticQrCodeResponse", result |-> "enums::Result",
           status |-> "enums::Status",
           order_id |-> FALSE] }]

\* internet_acquiring/refund.rs: RefundRequest::new
internet_acquiring_refund ==
    [requests |->
        { Value("RefundRequest",
              << Version("7"), Action("refund"), PublicKey >>) },
     bindings |->
        { [request |-> "RefundRequest", response |-> "RefundResponse",
           alg |-> "Sha3_256"] },
     responses |->
        { [type |-> "RefundResponse", result |-> "enums::Result",
           status |-> "enums::Status",
           order_id |-> FALSE] }]

\* internet_acquiring/subscription.rs: SubscribeRequest::new,
\*   CancelSubscriptionRequest::new,
\*   UpdateSubscriptionRequest::new
internet_acquiring_subscription ==
    [requests |->
        { Value("SubscribeRequest",
              << Version("7"), PublicKey, Action("subscribe"), Skipped("card_cvv"), Skipped("ip"), Nullable("sender_address") >>),
          Value("CancelSubscriptionRequest",
              << Version("7"), Action("unsubscribe"), PublicKey >>),
          Value("UpdateSubscriptionRequest",
              << Version("7"), Action("subscribe_update"), PublicKey >>) },
     bindings |->
        { [request |-> "SubscribeRequest", response |-> "SubscribeResponse",
           alg |-> "Sha3_256"],
          [request |-> "CancelSubscriptionRequest", response |-> "CancelSubscriptionResponse",
           alg |-> "Sha3_256"],
          [request |-> "UpdateSubscriptionRequest", response |-> "UpdateSubscriptionResponse",
           alg |-> "Sha3_256"] },
     responses |->
        { [type |-> "SubscribeResponse", result |-> "enums::Result",
           status |-> "enums::Status",
           order_id |-> TRUE],
          [type |-> "CancelSubscriptionResponse", result |-> "enums::Result",
           status |-> "enums::Status",
           order_id |-> TRUE],
          [type |-> "UpdateSubscriptionResponse", result |-> "enums::Result",
           status |-> "enums::Status",
           order_id |-> TRUE] }]

\* internet_acquiring/token.rs: TokenPaymentRequest::new
internet_acquiring_token ==
    [requests |->
        { TokenPaymentRequest_new("pk", "10.0", "B2") },
     bindings |->
        { [request |-> "TokenPaymentRequest", response |-> "TokenPaymentResponse",
           alg |-> "Sha1"] },
     responses |->
        { [type |-> "TokenPaymentResponse", result |-> "enums::Result",
           status |-> "enums::Status",
           order_id |-> TRUE] }]

\* internet_acquiring/two_stage.rs: TwoStageRequest::new
internet_acquiring_two_stage ==
    [requests |->
        { Value("TwoStageRequest",
              << Version("7"), PublicKey, Action("hold"), Skipped("applepay_token"), Skipped("card") >>) },
     bindings |->
        { [request |-> "TwoStageRequest", response |-> "TwoStageResponse",
           alg |-> "Sha3_256"] },
     responses |->
        { [type |-> "TwoStageResponse", result |-> "enums::Result",
           status |-> "enums::Status",
           order_id |-> TRUE] }]

\* internet_acquiring/two_step.rs: FundsBlockingRequest::new,
\*   PaymentCompletionRequest::new
internet_acquiring_two_step ==
    [requests |->
        { Value("FundsBlockingRequest",
              << Version("7"), PublicKey, Action("hold"), Skipped("applepay_token"), Skipped("card") >>),
          Value("PaymentCompletionRequest",
              << Version("7"), Action("HoldCompletion"), PublicKey, Skipped("rro_info"), Skipped("split_tickets_only") >>) },
     bindings |->
        { [request |-> "FundsBlockingRequest", response |-> "FundsBlockingResponse",
           alg |-> "Sha3_256"],
          [request |-> "PaymentCompletionRequest", response |-> "PaymentCompletionResponse",
           alg |-> "Sha3_256"] },
     responses |->
        { [type |-> "FundsBlockingResponse", result |-> "enums::Result",
           status |-> "enums::Status",
           order_id |-> TRUE],
          [type |-> "PaymentCompletionResponse", result |-> "enums::Result",
           status |-> "enums::Status",
           order_id |-> TRUE] }]

\* P2PCreditRequest::new (private): every one of the twenty options None
P2PCreditRequest_new ==
    Value("P2PCreditRequest",
          << Version("7"), PublicKey, Action("p2pcredit"),
             Skipped("ip"), Skipped("language"), Skipped("server_url"),
             Skipped("taxed"),
             Skipped("receiver_account"), Skipped("receiver_mfo"),
             Skipped("receiver_okpo"), Skipped("receiver_company"),
             Skipped("receiver_card"), Skipped("receiver_card_token"),
             Skipped("receiver_first_name"), Skipped("receiver_last_name"),
             Skipped("sender_first_name"), Skipped("sender_last_name"),
             Skipped("sender_country_code"), Skipped("sender_city"),
             Skipped("sender_address"), Skipped("sender_postal_code"),
             Skipped("customer"), Skipped("info") >>)

\* p2p_credit.rs: P2PCreditRequest::by_card, ::by_card_token, ::by_account
p2p_credit ==
    [requests |->
        { SetField(P2PCreditRequest_new, "receiver_card", Str("x")),
          SetField(P2PCreditRequest_new, "receiver_card_token", Str("x")),
          SetField(SetField(SetField(SetField(P2PCreditRequest_new,
              "receiver_account", Str("x")), "receiver_mfo", Str("x")),
              "receiver_okpo", Str("x")), "receiver_company", Str("x")) },
     bindings |->
        { [request |-> "P2PCreditRequest", response |-> "P2PCreditResponse",
           alg |-> "Sha3_256"] },
     responses |->
        { [type |-> "P2PCreditResponse", result |-> "enums::Result",
           status |-> "enums::Status",
           order_id |-> TRUE] }]

\* p2p_debit.rs: P2PDebitRequest::new
p2p_debit ==
    [requests |->
        { Value("P2PDebitRequest",
              << Version("7"), PublicKey, Action("p2pdebit"), Skipped("card"), Skipped("card_cvv") >>) },
     bindings |->
        { [request |-> "P2PDebitRequest", response |-> "P2PDebitResponse",
           alg |-> "Sha3_256"] },
     responses |->
        { [type |-> "P2PDebitResponse", result |-> "enums::Result",
           status |-> "enums::Status",
           order_id |-> TRUE] }]

\* partner/company_information.rs: CompanyInformationRequest::new
partner_company_information ==
    [requests |->
        { Value("CompanyInformationRequest",
              << Version("7"), Action("agent_info_merchant"), PublicKey, Skipped("language") >>) },
     bindings |->
        { [request |-> "CompanyInformationRequest", response |-> "CompanyInformationResponse",
           alg |-> "Sha3_256"] },
     responses |->
        { [type |-> "CompanyInformationResponse", result |-> "enums::Result",
           status |-> "enums::Status",
           order_id |-> FALSE] }]

\* partner/create_company.rs: CreateCompanyRequest::new,
\*   MccCodesRequest::new,
\*   MccDocumentsRequest::new,
\*   RegisterCompanyRequest::new
partner_create_company ==
    [requests |->
        { Value("CreateCompanyRequest",
              << Version("7"), PublicKey, Action("agent_shop_create"), Skipped("amount_procent_agent"), Skipped("amount_static_agent"), Skipped("currency_static_agent") >>),
          Value("MccCodesRequest",
              << Action("agent_info_mcc_codes"), Version("3"), PublicKey, Skipped("language") >>),
          Value("MccDocumentsRequest",
              << Action("agent_info_mcc_codes"), Version("3"), PublicKey, Skipped("language") >>),
          Value("RegisterCompanyRequest",
              << Version("7"), PublicKey, Action("agent_shop_register"), Skipped("url_site"), Skipped("url_app_iphone"), SkippedSome("amount_percent_agent"), Skipped("amount_static_agent"), Skipped("currency_static_agent"), Nullable("logo") >>),
          Value("RegisterCompanyRequest",
              << Version("7"), PublicKey, Action("agent_shop_register"), Skipped("url_site"), Skipped("url_app_iphone"), Skipped("amount_percent_agent"), SkippedSome("amount_static_agent"), SkippedSome("currency_static_agent"), Nullable("logo") >>) },
     bindings |->
        { [request |-> "CreateCompanyRequest", response |-> "CreateCompanyResponse",
           alg |-> "Sha3_256"],
          [request |-> "MccCodesRequest", response |-> "MccCodesResponse",
           alg |-> "Sha1"],
          [request |-> "MccDocumentsRequest", response |-> "MccDocumentsResponse",
           alg |-> "Sha1"],
          [request |-> "RegisterCompanyRequest", response |-> "RegisterCompanyResponse",
           alg |-> "Sha3_256"] },
     responses |->
        { [type |-> "CreateCompanyResponse", result |-> "enums::Result",
           status |-> "enums::Status",
           order_id |-> FALSE],
          [type |-> "MccCodesResponse", result |-> "enums::Result",
           status |-> "enums::Status",
           order_id |-> FALSE],
          [type |-> "MccDocumentsResponse", result |-> "enums::Result",
           status |-> "enums::Status",
           order_id |-> FALSE],
          [type |-> "RegisterCompanyResponse", result |-> "enums::Result",
           status |-> "Option<enums::Status>",
           order_id |-> FALSE] }]

\* partner/edit_company.rs: EditCompanyRequest::new
partner_edit_company ==
    [requests |->
        { Value("EditCompanyRequest",
              << Version("7"), PublicKey, Action("agent_shop_edit"), Skipped("amount_procent_agent"), Skipped("amount_static_agent"), Skipped("currency_static_agent") >>) },
     bindings |->
        { [request |-> "EditCompanyRequest", response |-> "EditCompanyResponse",
           alg |-> "Sha3_256"] },
     responses |->
        { [type |-> "EditCompanyResponse", result |-> "enums::Result",
           status |-> "enums::Status",
           order_id |-> FALSE] }]

\* partner/partner_information.rs: PartnerInformationRequest::new
partner_partner_information ==
    [requests |->
        { Value("PartnerInformationRequest",
              << Version("7"), Action("agent_info_user"), PublicKey >>) },
     bindings |->
        { [request |-> "PartnerInformationRequest", response |-> "PartnerInformationResponse",
           alg |-> "Sha3_256"] },
     responses |->
        { [type |-> "PartnerInformationResponse", result |-> "enums::Result",
           status |-> "Option<enums::Status>",
           order_id |-> FALSE] }]

\* the ! operator on a bool
Not(b) == IF b = "true" THEN "false" ELSE "true"

\* CreateTokenRequest::new (private) with both flags set to is_debit
CreateTokenRequest_new_same_flags(is_debit) ==
    Value("CreateTokenRequest",
          << Version("7"), PublicKey, Action("token_create"),
             Req("is_debit", Bool(is_debit)),
             Req("is_credit", Bool(is_debit)),
             Skipped("pushAccountReceipt"), Skipped("pushData"),
             Skipped("customer"), Skipped("card"), Skipped("card_cvv"),
             Skipped("card_exp_month"), Skipped("card_exp_year"),
             Skipped("expired_date") >>)

\* CreateTokenRequest::new (private): is_credit: !is_debit, options None
CreateTokenRequest_new(is_debit) ==
    Value("CreateTokenRequest",
          << Version("7"), PublicKey, Action("token_create"),
             Req("is_debit", Bool(is_debit)),
             Req("is_credit", Bool(Not(is_debit))),
             Skipped("pushAccountReceipt"), Skipped("pushData"),
             Skipped("customer"), Skipped("card"), Skipped("card_cvv"),
             Skipped("card_exp_month"), Skipped("card_exp_year"),
             Skipped("expired_date") >>)

\* tokens.rs: CreateTokenRequest::token_connect_control,
\*   ::visa_cards_enrollment_hub, ::card, each with is_debit true and false;
\*   ChangeTokenStatusRequest::new
tokens ==
    [requests |->
        { SetField(CreateTokenRequest_new(d), "pushAccountReceipt", Str("x")) :
              d \in {"true", "false"} }
        \cup
        { SetField(SetField(CreateTokenRequest_new(d), "pushData", Str("x")),
                   "customer", Str("x")) : d \in {"true", "false"} }
        \cup
        { SetField(SetField(SetField(SetField(CreateTokenRequest_new(d),
              "card", Str("x")), "card_cvv", Str("x")),
              "card_exp_month", Str("x")), "card_exp_year", Str("x")) :
              d \in {"true", "false"} }
        \cup
        { Value("ChangeTokenStatusRequest",
              << Version("7"), PublicKey, Action("token_update") >>) },
     bindings |->
        { [request |-> "CreateTokenRequest", response |-> "CreateTokenResponse",
           alg |-> "Sha3_256"],
          [request |-> "ChangeTokenStatusRequest", response |-> "ChangeTokenStatusResponse",
           alg |-> "Sha3_256"] },
     responses |->
        { [type |-> "CreateTokenResponse", result |-> "enums::Result",
           status |-> "Option<enums::Status>",
           order_id |-> FALSE],
          [type |-> "ChangeTokenStatusResponse", result |-> "enums::Result",
           status |-> "Option<enums::Status>",
           order_id |-> FALSE] }]

\* verification/card_verification.rs: CardVerificationRequest::new
verification_card_verification ==
    [requests |->
        { Value("CardVerificationRequest",
              << Version("7"), Action("cardverification"), PublicKey, Skipped("card_cvv"), Skipped("ip") >>) },
     bindings |->
        { [request |-> "CardVerificationRequest", response |-> "CardVerificationResponse",
           alg |-> "Sha3_256"] },
     responses |->
        { [type |-> "CardVerificationResponse", result |-> "enums::Result",
           status |-> "enums::Status",
           order_id |-> TRUE] }]

\* verification/mpi.rs: MpiRequest::new
verification_mpi ==
    [requests |->
        { Value("MpiRequest",
              << Version("7"), Action("mpi"), PublicKey, Skipped("card_cvv"), Skipped("email"), Nullable("ip"), Nullable("language") >>) },
     bindings |->
        { [request |-> "MpiRequest", response |-> "MpiResponse",
           alg |-> "Sha3_256"] },
     responses |->
        { [type |-> "MpiResponse", result |-> "Option<enums::Result>",
           status |-> "enums::Status",
           order_id |-> FALSE] }]

\* verification/otp.rs with OtpRequest bound a second time, to Sha1
verification_otp_bound_twice ==
    [requests |->
        { Value("OtpRequest",
              << Version("7"), Action("confirm"), PublicKey >>) },
     bindings |->
        { [request |-> "OtpRequest", response |-> "OtpResponse",
           alg |-> "Sha3_256"],
          [request |-> "OtpRequest", response |-> "OtpResponse",
           alg |-> "Sha1"] },
     responses |->
        { [type |-> "OtpResponse", result |-> "enums::Result",
           status |-> "enums::Status",
           order_id |-> TRUE] }]

\* verification/otp.rs: OtpRequest::new
verification_otp ==
    [requests |->
        { Value("OtpRequest",
              << Version("7"), Action("confirm"), PublicKey >>) },
     bindings |->
        { [request |-> "OtpRequest", response |-> "OtpResponse",
           alg |-> "Sha3_256"] },
     responses |->
        { [type |-> "OtpResponse", result |-> "enums::Result",
           status |-> "enums::Status",
           order_id |-> TRUE] }]

\* the files of the crate
Contracts ==
    { information_add_data, information_archive, information_receipt,
      information_registry, information_status, informational_add_data,
      informational_archive, informational_receipt, informational_registry,
      informational_status, internet_acquiring_card, internet_acquiring_cash,
      internet_acquiring_invoice, internet_acquiring_qr_code, internet_acquiring_refund,
      internet_acquiring_subscription, internet_acquiring_token, internet_acquiring_two_stage,
      internet_acquiring_two_step, p2p_credit, p2p_debit,
      partner_company_information, partner_create_company, partner_edit_company,
      partner_partner_information, tokens, verification_card_verification,
      verification_mpi, verification_otp }

\* every constructed request value, every binding, every response schema
Constructed == UNION {c.requests : c \in Contracts}
Bindings == UNION {c.bindings : c \in Contracts}
Responses == UNION {c.responses : c \in Contracts}


\* the binding a caller writes for its own request type
CallerBindings ==
    { [request |-> "CallerRequest", response |-> "CallerResponse", alg |-> "Sha3_256"] }

\* the bindings of a request type
BindingsOf(type) == {b \in Bindings \cup CallerBindings : b.request = type}

\* the binding the compiler resolves a dispatch of a request type with
Bound ==
    [type \in {b.request : b \in Bindings \cup CallerBindings} |->
        CHOOSE b \in BindingsOf(type) : TRUE]

\* the value of a request's field
FieldValue(req, name) ==
    LET i == CHOOSE k \in 1..Len(req.fields) : req.fields[k].name = name
    IN  req.fields[i].value

\* every request type bound to the current algorithm
BoundAlgAlwaysSha3(type) == "Sha3_256"

\* the hash algorithm bound to a request type by its impl LiqPayRequest
BoundAlg(type) == Bound[type].alg

\* the response type bound to a request type by its impl LiqPayRequest
BoundResp(type) == Bound[type].response

\* ------------------------------------------------------------------ codec
\* serde_json's text of one value: a string, a finite f64, or `null` for a
\* non-finite f64 (serde_json writes null for NaN and the infinities)
JsonValue(v) ==
    IF v[1] = "str" THEN <<"str", v[2]>>
    ELSE IF v[1] = "bool" THEN <<"bool", v[2]>>
    ELSE IF v[2] \in NonFiniteAmounts THEN <<"null", "null">>
    ELSE <<"num", v[2]>>

\* the derived Serialize of one struct field
JsonField(f) ==
    IF f.value = None
    THEN IF f.skip THEN <<>> ELSE <<f.name, "null", "null">>
    ELSE <<f.name>> \o JsonValue(f.value[1])

RECURSIVE JsonFields(_)
JsonFields(fs) ==
    IF fs = <<>> THEN <<>> ELSE JsonField(Head(fs)) \o JsonFields(Tail(fs))

\* serde_json::to_string(&request): Ok(text) or Err
to_string(req) ==
    IF req.serializable
    THEN [ok |-> TRUE, text |-> <<"{">> \o JsonFields(req.fields) \o <<"}">>]
    ELSE [ok |-> FALSE, text |-> <<>>]

\* general_purpose::STANDARD.encode
encode(bytes) == <<"b64(">> \o bytes \o <<")">>

\* Alg::digest
digest(alg, bytes) == <<alg \o "(">> \o bytes \o <<")">>

\* the key prepended but not appended
build_signature_prefix(private_key, body) == private_key \o body

\* build_signature (client.rs) / form_signature (traits.rs)
build_signature(private_key, body) == private_key \o body \o private_key

\* build_form_data, lines 29-30: serialize and base64-encode the request
encode_request(req) ==
    LET r == to_string(req)
    IN  [ok |-> r.ok,
         serialized_request |-> r.text,
         encoded_request |-> IF r.ok THEN encode(r.text) ELSE <<>>]

\* a signature that is the base64 of the unhashed key-payload-key text
sign_unhashed(alg, private_key, encoded_request) ==
    encode(build_signature(private_key, encoded_request))

\* build_form_data, lines 32-34: the signature of a payload under a key
sign(alg, private_key, encoded_request) ==
    encode(digest(alg, build_signature(private_key, encoded_request)))

\* a form that also carries the merchant's public key
FormDataWithPublicKey(encoded_request, encoded_signature) ==
    << [name |-> DATA, value |-> encoded_request],
       [name |-> SIGNATURE, value |-> encoded_signature],
       [name |-> "public_key", value |-> <<"p", "k">>] >>

\* build_form_data, line 36: the two-entry array, data first
FormData(encoded_request, encoded_signature) ==
    << [name |-> DATA, value |-> encoded_request],
       [name |-> SIGNATURE, value |-> encoded_signature] >>

\* traits.rs builds a HashMap instead: its iteration order is unspecified
HashMapOrders(encoded_request, encoded_signature) ==
    { FormData(encoded_request, encoded_signature),
      << [name |-> SIGNATURE, value |-> encoded_signature],
         [name |-> DATA, value |-> encoded_request] >> }

\* RequestBuilder::form: application/x-www-form-urlencoded text of the pairs
RECURSIVE FormUrlEncode(_)
FormUrlEncode(form) ==
    IF form = <<>> THEN <<>>
    ELSE <<Head(form).name, "=", "pct(">> \o Head(form).value \o <<")">>
         \o (IF Len(form) > 1 THEN <<"&">> ELSE <<>>)
         \o FormUrlEncode(Tail(form))

\* ---------------------------------------------------------------- gateway
\* the order_id carried by a posted body (the gateway echoes it)
OrderIdOf(body) ==
    LET k == CHOOSE n \in 1..Len(body) : body[n] = "order_id"
    IN  body[k + 2]

OkBody(oid) ==
    <<"{", "result", "str", "ok", "status", "str", "success",
      "order_id", "str", oid, "}">>
FailBody(oid) ==
    <<"{", "result", "str", "error", "status", "str", "failure",
      "err_code", "str", "err_payment", "err_description", "str", "declined",
      "order_id", "str", oid, "}">>
ErrorBody(oid) ==
    <<"{", "result", "str", "error", "status", "str", "error",
      "err_code", "str", "err_auth", "err_description", "str", "bad signature",
      "order_id", "str", oid, "}">>
GarbageBody == <<"<html>">>

NoReply == [kind |-> "none", status |-> 0, body |-> <<>>]

\* what the HTTP exchange of a posted body can come to: the POST fails
\* (connection, TLS, timeout) or a response with some body arrives
Replies(body) ==
    { [kind |-> "send_error", status |-> 0, body |-> <<>>] }
    \cup { [kind |-> "response", status |-> 200, body |-> b] :
             b \in {OkBody(OrderIdOf(body)), FailBody(OrderIdOf(body)),
                    ErrorBody(OrderIdOf(body)), GarbageBody} }

\* --------------------------------------------------------------- decoding
\* a Result enum without its Error variant
ResultNamesOkOnly == {"ok"}

\* enums::Result and enums::Status as serde names them
ResultNames == {"ok", "error"}
StatusNames ==
    {"error", "failure", "reversed", "success", "3ds_verify ", "cvv_verify ",
     "otp_verify ", "ivr_verify", "password_verify", "phone_verify",
     "pin_verify", "receiver_verify ", "sender_verify ", "senderapp_verify ",
     "captcha_verify", "mp_verify", "wait_accept ", "wait_card ",
     "wait_compensation ", "wait_lc ", "wait_reserve ", "wait_secure ",
     "wait_qr", "wait_sender", "cash_wait", "hold_wait", "invoice_wait",
     "subscribed", "unsubscribed", "prepared", "processing", "try_again",
     "active"}

\* a JSON object: braces around (name, tag, value) triples
IsJsonObject(text) ==
    /\ Len(text) >= 2
    /\ text[1] = "{"
    /\ text[Len(text)] = "}"
    /\ (Len(text) - 2) % 3 = 0

\* the (tag, value) of a key of a JSON object, None when the key is absent
JsonGet(text, name) ==
    LET ks == {k \in 0..((Len(text) - 2) \div 3 - 1) : text[2 + 3 * k] = name}
    IN  IF ks = {} THEN None
        ELSE LET k == CHOOSE x \in ks : TRUE
             IN  Some(<<text[3 + 3 * k], text[4 + 3 * k]>>)

\* a required enum field: present, a string, one of the variant names
EnumFieldOk(text, name, names) ==
    LET g == JsonGet(text, name)
    IN  g # None /\ g[1][1] = "str" /\ g[1][2] \in names

\* an Option<String> field: absent or null or a string
OptStringOk(text, name) ==
    LET g == JsonGet(text, name)
    IN  g = None \/ g[1][1] \in {"str", "null"}

OptString(text, name) ==
    LET g == JsonGet(text, name)
    IN  IF g = None \/ g[1][1] = "null" THEN None ELSE Some(g[1][2])

NoResp ==
    [type |-> "", result |-> "", status |-> "", order_id |-> None,
     error_code |-> None, error_description |-> None, text |-> <<>>]

\* information::common::Result, and the Result of informational/archive.rs
InformationResultNames == {"success", "error"}

\* the schema of a response type; a caller's own response type is taken to
\* have the shape of CardPaymentResponse
Schemas == [type \in {s.type : s \in Responses} |->
              CHOOSE s \in Responses : s.type = type]

SchemaOf(resp_type) ==
    IF resp_type \in DOMAIN Schemas
    THEN Schemas[resp_type]
    ELSE [type |-> resp_type, result |-> "enums::Result",
          status |-> "enums::Status", order_id |-> TRUE]

OptionKinds == {"Option<enums::Result>", "Option<enums::Status>"}

\* the variant names of the enum a field is declared with
NamesOf(kind) ==
    CASE kind \in {"enums::Result", "Option<enums::Result>"} -> ResultNames
      [] kind \in {"enums::Status", "Option<enums::Status>"} -> StatusNames
      [] kind \in {"information::common::Result",
                   "informational::archive::Result"} -> InformationResultNames
      [] OTHER -> {}

\* an enum field of a response: a struct without the field ignores the key,
\* an Option takes absent, null or a variant name, a required one a variant
\* name only
EnumOk(text, name, kind) ==
    LET g == JsonGet(text, name)
    IN  CASE kind = "none" -> TRUE
          [] kind \in OptionKinds ->
               \/ g = None
               \/ g[1][1] = "null"
               \/ (g[1][1] = "str" /\ g[1][2] \in NamesOf(kind))
          [] OTHER -> EnumFieldOk(text, name, NamesOf(kind))

\* the decoded field: the variant's name, written Some(name) / None for an
\* Option and "" for a struct without the field
EnumValue(text, name, kind) ==
    LET g == JsonGet(text, name)
    IN  CASE kind = "none" -> ""
          [] kind \in OptionKinds ->
               IF g = None \/ g[1][1] = "null" THEN "None"
               ELSE "Some(" \o g[1][2] \o ")"
          [] OTHER -> g[1][2]

\* Response::json::<Resp>() on a received body: the derived Deserialize of
\* the response type (result and status as its schema declares them, every
\* other field an Option, unknown keys ignored)
from_json(resp_type, text) ==
    LET s == SchemaOf(resp_type)
    IN  IF /\ IsJsonObject(text)
           /\ EnumOk(text, "result", s.result)
           /\ EnumOk(text, "status", s.status)
           /\ (s.order_id => OptStringOk(text, "order_id"))
           /\ OptStringOk(text, "err_code")
           /\ OptStringOk(text, "err_description")
        THEN [ok |-> TRUE,
              resp |-> [type |-> resp_type,
                        result |-> EnumValue(text, "result", s.result),
                        status |-> EnumValue(text, "status", s.status),
                        order_id |-> IF s.order_id
                                     THEN OptString(text, "order_id")
                                     ELSE None,
                        error_code |-> OptString(text, "err_code"),
                        error_description |-> OptString(text, "err_description"),
                        text |-> <<>>]]
        ELSE [ok |-> FALSE, resp |-> NoResp]

\* ------------------------------------------------------------------ state
VARIABLES
    client,         \* the LiqPayClient: [private_key]
    block_client,   \* the blocking::BlockLiqPayClient: [private_key]
    disp,           \* the dispatch invocations, one record per slot
    built,          \* the value a caller constructs: [value, calls]
    io              \* the last text serialized or decoded: [text, result]

vars == <<client, block_client, disp, built, io>>

ClientVias == {"LiqPayClient::send", "BlockLiqPayClient::send"}
TraitVias == {"LiqPayRequest::send", "LiqPayRequest::send_async"}
BlockingVias == {"BlockLiqPayClient::send", "LiqPayRequest::send"}

NoOutcome ==
    [kind |-> "none", resp |-> NoResp, error_type |-> "", error_kind |-> ""]
Ok(resp) ==
    [kind |-> "Ok", resp |-> resp, error_type |-> "", error_kind |-> ""]
Err(type, kind) ==
    [kind |-> "Err", resp |-> NoResp, error_type |-> type, error_kind |-> kind]

NoWire == [url |-> "", body |-> <<>>]

Idle ==
    [pc |-> "idle", via |-> "", key_arg |-> <<>>,
     request |-> CallerRequest,
     encoded_request |-> <<>>, encoded_signature |-> <<>>,
     form_data |-> <<>>, posts |-> 0, wire |-> NoWire,
     reply |-> NoReply, outcome |-> NoOutcome, trace |-> <<>>]

\* LiqPayClient::new / BlockLiqPayClient::new
new(private_key) == [private_key |-> private_key]

\* both clients are constructed with the merchant's private key
\* no value under construction, nothing serialized or decoded
NoBuilt == [value |-> CallerRequest, calls |-> <<>>]
NoIo == [text |-> <<>>, result |-> NoResp, ok |-> FALSE, done |-> FALSE]

Init ==
    /\ \E k \in Keys : client = new(k) /\ block_client = new(k)
    /\ disp = [i \in Slots |-> Idle]
    /\ built = NoBuilt
    /\ io = NoIo

\* a signing key that changes once a dispatch has been posted
KeyOfAfterUse(d) ==
    LET k == CASE d.via = "LiqPayClient::send" -> client.private_key
               [] d.via = "BlockLiqPayClient::send" -> block_client.private_key
               [] OTHER -> d.key_arg
    IN  IF \E j \in Slots : disp[j].posts > 0 THEN k \o <<"+">> ELSE k

\* the private key a dispatch signs with: the client's field (client.rs
\* lines 63 and 107) or the argument of the trait method (traits.rs)
KeyOf(d) ==
    CASE d.via = "LiqPayClient::send" -> client.private_key
      [] d.via = "BlockLiqPayClient::send" -> block_client.private_key
      [] OTHER -> d.key_arg

\* a caller invokes a dispatch with a request it built
Call(i, via, req, key) ==
    /\ disp[i].pc = "idle"
    /\ disp' = [disp EXCEPT ![i] =
                  [@ EXCEPT !.pc = "called", !.via = via, !.request = req,
                            !.key_arg = IF via \in TraitVias THEN key ELSE <<>>]]
    /\ UNCHANGED <<client, block_client, built, io>>

\* the form a dispatcher builds: an array in client.rs, a HashMap in traits.rs
Forms(via, encoded_request, encoded_signature) ==
    IF via \in ClientVias
    THEN {FormData(encoded_request, encoded_signature)}
    ELSE HashMapOrders(encoded_request, encoded_signature)

\* a build that goes on after a failed serialization
BuildFormDataIgnoreError(i) ==
    LET d == disp[i]
        e == encode_request(d.request)
        s == sign(BoundAlg(d.request.type), KeyOf(d), encode(e.serialized_request))
    IN  /\ d.pc = "called"
        /\ \E f \in Forms(d.via, encode(e.serialized_request), s) :
              disp' = [disp EXCEPT ![i] =
                         [d EXCEPT !.pc = "built",
                                   !.encoded_request = encode(e.serialized_request),
                                   !.encoded_signature = s,
                                   !.form_data = f,
                                   !.trace = @ \o <<"encode", "sign", "form">>]]
        /\ UNCHANGED <<client, block_client, built, io>>

\* build_form_data(&self.private_key, request)?: serialize and encode the
\* request (an error returns at once), sign the payload, build the form
BuildFormData(i) ==
    LET d == disp[i]
        e == encode_request(d.request)
        s == sign(BoundAlg(d.request.type), KeyOf(d), e.encoded_request)
    IN  /\ d.pc = "called"
        /\ IF e.ok
           THEN \E f \in Forms(d.via, e.encoded_request, s) :
                  disp' = [disp EXCEPT ![i] =
                             [d EXCEPT !.pc = "built",
                                       !.encoded_request = e.encoded_request,
                                       !.encoded_signature = s,
                                       !.form_data = f,
                                       !.trace = @ \o <<"encode", "sign", "form">>]]
           ELSE disp' = [disp EXCEPT ![i] =
                           [d EXCEPT !.pc = "done",
                                     !.outcome = Err("serde_json::Error", "Data"),
                                     !.trace = Append(@, "encode")]]
        /\ UNCHANGED <<client, block_client, built, io>>

\* a dispatch that posts the form of the first invocation
PostFirstForm(i) ==
    LET d == disp[i]
    IN  /\ d.pc = "built"
        /\ disp' = [disp EXCEPT ![i] =
                      [d EXCEPT !.pc = "posted",
                                !.posts = @ + 1,
                                !.wire = [url |-> CLIENT_URL,
                                          body |-> FormUrlEncode(disp[1].form_data)],
                                !.trace = Append(@, "post")]]
        /\ UNCHANGED <<client, block_client, built, io>>

\* client.post(CLIENT_URL).form(&form_data).send()
Post(i) ==
    LET d == disp[i]
    IN  /\ d.pc = "built"
        /\ disp' = [disp EXCEPT ![i] =
                      [d EXCEPT !.pc = "posted",
                                !.posts = @ + 1,
                                !.wire = [url |-> CLIENT_URL,
                                          body |-> FormUrlEncode(d.form_data)],
                                !.trace = Append(@, "post")]]
        /\ UNCHANGED <<client, block_client, built, io>>

\* a dispatch that hands back the body text instead of decoding it
OutcomeRawText(via, req_type, r) ==
    CASE r.kind = "send_error" -> Err("reqwest::Error", "Request")
      [] OTHER -> Ok([NoResp EXCEPT !.type = "String", !.text = r.body])

\* a dispatch that calls error_for_status() before it decodes the body
OutcomeErrorForStatus(via, req_type, r) ==
    CASE r.kind = "send_error" -> Err("reqwest::Error", "Request")
      [] r.status \notin 200..299 -> Err("reqwest::Error", "Status")
      [] OTHER ->
           IF via = "LiqPayRequest::send"
           THEN Ok([NoResp EXCEPT !.type = "String", !.text = r.body])
           ELSE LET j == from_json(BoundResp(req_type), r.body)
                IN  IF j.ok THEN Ok(j.resp) ELSE Err("reqwest::Error", "Decode")

\* what a dispatch returns once its HTTP exchange came to reply r
Outcome(via, req_type, r) ==
    CASE r.kind = "send_error" -> Err("reqwest::Error", "Request")
      [] OTHER ->
           IF via = "LiqPayRequest::send"
           THEN Ok([NoResp EXCEPT !.type = "String", !.text = r.body])
           ELSE LET j == from_json(BoundResp(req_type), r.body)
                IN  IF j.ok THEN Ok(j.resp) ELSE Err("reqwest::Error", "Decode")

\* a dispatch that posts once more when the POST failed
CompleteRetry(i) ==
    LET d == disp[i]
    IN  /\ d.pc = "posted"
        /\ \E r \in Replies(d.wire.body) :
              disp' = [disp EXCEPT ![i] =
                         IF r.kind = "send_error" /\ d.posts < 2
                         THEN [d EXCEPT !.pc = "built"]
                         ELSE [d EXCEPT !.pc = "done",
                                        !.reply = r,
                                        !.outcome = Outcome(d.via, d.request.type, r),
                                        !.trace = IF r.kind = "response"
                                                  THEN Append(@, "decode") ELSE @]]
        /\ UNCHANGED <<client, block_client, built, io>>

\* the exchange completes: `.send()(.await)?` then `.json()(.await)?`
\* (`.text()?` in the blocking trait method)
Complete(i) ==
    LET d == disp[i]
    IN  /\ d.pc = "posted"
        /\ \E r \in Replies(d.wire.body) :
              disp' = [disp EXCEPT ![i] =
                         [d EXCEPT !.pc = "done",
                                   !.reply = r,
                                   !.outcome = Outcome(d.via, d.request.type, r),
                                   !.trace = IF r.kind = "response"
                                             THEN Append(@, "decode") ELSE @]]
        /\ UNCHANGED <<client, block_client, built, io>>

CallClient == \E i \in Slots, via \in ClientVias, req \in Requests : Call(i, via, req, <<>>)
CallTrait == \E i \in Slots, via \in TraitVias, req \in Requests, k \in TraitKeys : Call(i, via, req, k)
DoBuildFormData == \E i \in Slots : BuildFormData(i)
DoPost == \E i \in Slots : Post(i)
DoComplete == \E i \in Slots : Complete(i)

Next ==
    \/ CallClient
    \/ DoBuildFormData
    \/ DoPost
    \/ DoComplete

Spec == Init /\ [][Next]_vars

\* the dispatch of traits.rs (LiqPayRequest::send / send_async)
InitTraits ==
    /\ client = new(Secret)
    /\ block_client = new(Secret)
    /\ disp = [i \in Slots |-> Idle]
    /\ built = NoBuilt
    /\ io = NoIo

NextTraits ==
    \/ CallTrait
    \/ DoBuildFormData
    \/ DoPost
    \/ DoComplete

SpecTraits == InitTraits /\ [][NextTraits]_vars

\* ------------------------------------------- replies of any HTTP status
\* the status codes a gateway reply carries: success, client error, server
\* error
Statuses == {200, 404, 500}

\* the exchange completes with a reply of any status: neither
\* `.send().await?` nor `.json().await?` looks at it (no error_for_status)
CompleteAnyStatus(i) ==
    LET d == disp[i]
    IN  /\ d.pc = "posted"
        /\ \E reply \in Replies(d.wire.body), status \in Statuses :
              LET r == IF reply.kind = "response"
                       THEN [reply EXCEPT !.status = status] ELSE reply
              IN  disp' = [disp EXCEPT ![i] =
                             [d EXCEPT !.pc = "done",
                                       !.reply = r,
                                       !.outcome = Outcome(d.via, d.request.type, r),
                                       !.trace = IF r.kind = "response"
                                                 THEN Append(@, "decode") ELSE @]]
        /\ UNCHANGED <<client, block_client, built, io>>

\* the two clients dispatching one card payment to a gateway that answers
\* with any status
NextStatus ==
    \/ \E i \in Slots, via \in ClientVias :
          Call(i, via, CardPaymentRequest_new("pk", "10.0", "A1"), <<>>)
    \/ DoBuildFormData
    \/ DoPost
    \/ \E i \in Slots : CompleteAnyStatus(i)

SpecStatus == InitTraits /\ [][NextStatus]_vars

\* ------------------------------------------------------ reading a POST
\* the pairs of an application/x-www-form-urlencoded body, in body order
RECURSIVE ParseForm(_)
ParseForm(body) ==
    IF body = <<>> THEN <<>>
    ELSE LET amps == {k \in 1..Len(body) : body[k] = "&"}
             stop == IF amps = {} THEN Len(body) + 1
                     ELSE CHOOSE k \in amps : \A m \in amps : k <= m
         IN  << [name |-> body[1], value |-> SubSeq(body, 4, stop - 2)] >>
             \o (IF stop > Len(body) THEN <<>>
                 ELSE ParseForm(SubSeq(body, stop + 1, Len(body))))

\* the value of a named pair of a parsed form
ValueOf(form, name) ==
    LET k == CHOOSE n \in 1..Len(form) : form[n].name = name
    IN  form[k].value

\* the text inside a base64 bracket
Unbase64(text) == SubSeq(text, 2, Len(text) - 1)

Sent(d) == d.posts > 0
ClientSlots == {i \in Slots : disp[i].via \in ClientVias}

\* -------------------------------------------------------------------- C1
\* C1: every invocation of LiqPayClient::send / BlockLiqPayClient::send
\* issues at most one POST; a finished invocation issued exactly one when
\* the request serialized and none otherwise, whatever the POST came to.
C1_OnePost ==
    \A i \in ClientSlots :
        LET d == disp[i]
        IN  /\ d.posts <= 1
            /\ d.pc \in {"posted"} => d.posts = 1
            /\ d.pc = "done" =>
                 d.posts = (IF d.request.serializable THEN 1 ELSE 0)

C1_Witness ==
    \E i \in ClientSlots :
        /\ disp[i].pc = "done"
        /\ disp[i].posts = 1
        /\ disp[i].reply.kind = "send_error"

\* ----------------------------------------------------------------- C2
\* C2: in every body sent, signature = base64(Hash(key ++ D ++ key)) where D
\* is the data value of that same body and key is the key the client was
\* constructed with; the payload sent is the payload that was signed.
C2_SignatureOfSentData ==
    \A i \in Slots :
        LET d == disp[i]
            f == ParseForm(d.wire.body)
            D == ValueOf(f, DATA)
            key == KeyOf(d)
        IN  Sent(d) =>
              /\ ValueOf(f, SIGNATURE)
                   = encode(digest(BoundAlg(d.request.type), key \o D \o key))
              /\ D = d.encoded_request

C2_Witness ==
    \E i \in ClientSlots :
        /\ Sent(disp[i])
        /\ KeyOf(disp[i]) = OtherKey
        /\ ValueOf(ParseForm(disp[i].wire.body), SIGNATURE) = disp[i].encoded_signature

\* ----------------------------------------------------------------- C3
\* C3: the hash that signs a request is the one bound to its type: SHA-1
\* for TokenPaymentRequest, SHA3-256 for CardPaymentRequest; for key
\* "secret" and payload "body" the signatures are
\* base64(SHA1("secretbodysecret")) and base64(SHA3-256("secretbodysecret")).
SecretBodySecret ==
    <<"s", "e", "c", "r", "e", "t", "b", "o", "d", "y",
      "s", "e", "c", "r", "e", "t">>

C3_BoundAlgorithm ==
    /\ \A i \in Slots :
         LET d == disp[i]
             input == KeyOf(d) \o d.encoded_request \o KeyOf(d)
         IN  d.encoded_signature # <<>> =>
               /\ d.request.type = "TokenPaymentRequest" =>
                    d.encoded_signature = <<"b64(", "Sha1(">> \o input \o <<")", ")">>
               /\ d.request.type = "CardPaymentRequest" =>
                    d.encoded_signature = <<"b64(", "Sha3_256(">> \o input \o <<")", ")">>
    /\ sign(BoundAlg("TokenPaymentRequest"), Secret, <<"b", "o", "d", "y">>)
         = <<"b64(", "Sha1(">> \o SecretBodySecret \o <<")", ")">>
    /\ sign(BoundAlg("CardPaymentRequest"), Secret, <<"b", "o", "d", "y">>)
         = <<"b64(", "Sha3_256(">> \o SecretBodySecret \o <<")", ")">>

C3_Witness ==
    \E i, j \in Slots :
        /\ disp[i].request.type = "TokenPaymentRequest"
        /\ disp[j].request.type = "CardPaymentRequest"
        /\ Sent(disp[i])
        /\ Sent(disp[j])

\* ----------------------------------------------------------------- C4
\* C4: the form body of every dispatch has exactly two entries, data and
\* signature; data is the base64 text of the JSON serialization of the
\* request, signature the computed signature; nothing else is added.
Present(req) == SelectSeq(req.fields, LAMBDA fld : fld.value # None)

C4_TwoEntries ==
    \A i \in Slots :
        LET d == disp[i]
            f == ParseForm(d.wire.body)
            json == Unbase64(ValueOf(f, DATA))
            present == Present(d.request)
        IN  /\ d.form_data # <<>> =>
                 /\ Len(d.form_data) = 2
                 /\ {d.form_data[k].name : k \in 1..2} = {"data", "signature"}
            /\ Sent(d) =>
                 /\ Len(f) = 2
                 /\ {f[k].name : k \in 1..Len(f)} = {"data", "signature"}
                 /\ ValueOf(f, DATA)[1] = "b64("
                 /\ IsJsonObject(json)
                 /\ Len(json) = 2 + 3 * Len(present)
                 /\ \A k \in 1..Len(present) :
                      /\ json[3 * k - 1] = present[k].name
                      /\ present[k].value[1][1] = "str" =>
                           /\ json[3 * k] = "str"
                           /\ json[3 * k + 1] = present[k].value[1][2]
                 /\ ValueOf(f, SIGNATURE) = d.encoded_signature
                 /\ \A k \in 1..Len(f) : f[k].value # KeyOf(d)

C4_Witness ==
    \E i \in ClientSlots :
        /\ Sent(disp[i])
        /\ Len(ParseForm(disp[i].wire.body)) = 2
        /\ disp[i].request.type = "CardPaymentRequest"

\* ----------------------------------------------------------------- C5
\* C5: within one dispatch the stages run in the order encode, sign, form,
\* POST, decode, each at most once; a stage runs only after every earlier
\* one succeeded, and a failed stage's error is the dispatch's result.
Stages == <<"encode", "sign", "form", "post", "decode">>

C5_StageOrder ==
    \A i \in Slots :
        LET d == disp[i]
            n == Len(d.trace)
        IN  /\ n <= Len(Stages)
            /\ d.trace = SubSeq(Stages, 1, n)
            /\ d.posts = (IF n >= 4 THEN 1 ELSE 0)
            /\ (n >= 2 => d.request.serializable)
            /\ (d.pc = "done" /\ ~d.request.serializable) =>
                 /\ d.trace = <<"encode">>
                 /\ d.outcome = Err("serde_json::Error", "Data")
            /\ (d.pc = "done" /\ d.reply.kind = "send_error") =>
                 /\ d.trace = SubSeq(Stages, 1, 4)
                 /\ d.outcome.kind = "Err"
                 /\ d.outcome.error_type = "reqwest::Error"
                 /\ d.outcome.error_kind # "Decode"
            /\ (d.pc = "done" /\ d.reply.kind = "response") => d.trace = Stages
            /\ (d.pc = "done" /\ d.outcome.kind = "Ok") => d.trace = Stages

C5_Witness ==
    \E i, j \in ClientSlots :
        /\ disp[i].pc = "done"
        /\ disp[i].trace = <<"encode">>
        /\ disp[i].outcome.kind = "Err"
        /\ disp[j].pc = "done"
        /\ disp[j].trace = Stages
        /\ disp[j].outcome.error_kind = "Decode"

\* ----------------------------------------------------------------- C6
\* C6: every finished dispatch of client.rs ends in exactly one of a
\* Response of the bound type, a serialization error, a transport error or
\* a decode error, and the kind tells which stage failed.
IsResponse(d) ==
    /\ d.outcome.kind = "Ok"
    /\ d.outcome.resp.type = BoundResp(d.request.type)
    /\ d.outcome.resp.result \in {"ok", "error"}
IsSerializationError(d) ==
    d.outcome.kind = "Err" /\ d.outcome.error_type = "serde_json::Error"
IsTransportError(d) ==
    /\ d.outcome.kind = "Err"
    /\ d.outcome.error_type = "reqwest::Error"
    /\ d.outcome.error_kind = "Request"
IsDecodeError(d) ==
    /\ d.outcome.kind = "Err"
    /\ d.outcome.error_type = "reqwest::Error"
    /\ d.outcome.error_kind = "Decode"

OutcomeClasses(d) ==
    {c \in {"Response", "SerializationError", "TransportError", "DecodeError"} :
        \/ c = "Response" /\ IsResponse(d)
        \/ c = "SerializationError" /\ IsSerializationError(d)
        \/ c = "TransportError" /\ IsTransportError(d)
        \/ c = "DecodeError" /\ IsDecodeError(d)}

C6_FourOutcomes ==
    \A i \in ClientSlots :
        LET d == disp[i]
        IN  d.pc = "done" =>
              /\ Cardinality(OutcomeClasses(d)) = 1
              /\ IsSerializationError(d) <=> ~d.request.serializable
              /\ IsTransportError(d) <=> d.reply.kind = "send_error"
              /\ IsDecodeError(d) <=>
                   (d.reply.kind = "response" /\ d.reply.body = GarbageBody)

C6_Witness ==
    \E i, j \in ClientSlots :
        /\ disp[i].pc = "done"
        /\ IsDecodeError(disp[i])
        /\ disp[j].pc = "done"
        /\ IsResponse(disp[j])

\* ----------------------------------------------------------------- C7
\* C7: a well-formed gateway body that reports a business failure (result
\* "error", status "failure" or "error", err_code, err_description) makes
\* the dispatch return Ok with the decoded Response, never an error.
BusinessFailure(body) ==
    /\ IsJsonObject(body)
    /\ JsonGet(body, "result") = Some(<<"str", "error">>)
    /\ JsonGet(body, "status") \in {Some(<<"str", "failure">>), Some(<<"str", "error">>)}

C7_BusinessFailureIsOk ==
    \A i \in ClientSlots :
        LET d == disp[i]
        IN  (d.pc = "done" /\ d.reply.kind = "response" /\ BusinessFailure(d.reply.body)) =>
              /\ d.outcome.kind = "Ok"
              /\ d.outcome.resp.type = BoundResp(d.request.type)
              /\ d.outcome.resp.result = "error"
              /\ Some(<<"str", d.outcome.resp.status>>) = JsonGet(d.reply.body, "status")
              /\ d.outcome.resp.error_code # None
              /\ d.outcome.resp.error_description # None

C7_Witness ==
    \E i, j \in ClientSlots :
        /\ disp[i].pc = "done"
        /\ disp[i].reply.body = FailBody("A1")
        /\ disp[i].outcome.kind = "Ok"
        /\ disp[j].pc = "done"
        /\ disp[j].reply.body = ErrorBody("B2")
        /\ disp[j].outcome.kind = "Ok"

\* ----------------------------------------------------------------- C8
\* C8: a request holding a non-finite floating point amount (a value JSON
\* cannot represent) is never encoded, signed and sent: its dispatch issues
\* no POST and ends in a serialization error.
HasNonFiniteAmount(req) ==
    \E k \in 1..Len(req.fields) :
        /\ req.fields[k].value # None
        /\ req.fields[k].value[1][1] = "f64"
        /\ req.fields[k].value[1][2] \in NonFiniteAmounts

C8_NonFiniteNotSent ==
    \A i \in ClientSlots :
        LET d == disp[i]
        IN  HasNonFiniteAmount(d.request) =>
              /\ d.posts = 0
              /\ d.encoded_request = <<>>
              /\ d.pc = "done" => IsSerializationError(d)

\* ----------------------------------------------------------------- C9
\* C9: a blocking and a non-blocking dispatch of the same request under the
\* same key and the same gateway reply send the same form entries to the
\* same URL and return the same outcome.
SameInputs(a, b) ==
    /\ a.pc = "done"
    /\ b.pc = "done"
    /\ a.via \in BlockingVias
    /\ b.via \notin BlockingVias
    /\ a.request = b.request
    /\ KeyOf(a) = KeyOf(b)
    /\ a.reply = b.reply

C9_BlockingEqualsNonBlocking ==
    \A i, j \in Slots :
        SameInputs(disp[i], disp[j]) =>
          /\ disp[i].wire.url = disp[j].wire.url
          /\ {disp[i].form_data[k] : k \in 1..Len(disp[i].form_data)}
               = {disp[j].form_data[k] : k \in 1..Len(disp[j].form_data)}
          /\ disp[i].outcome = disp[j].outcome

\* ---------------------------------------------------------------- C10
\* C10: a client's private key never changes after new; under any
\* interleaving of dispatches through one client each dispatch sends the
\* form body of its own request and that key, and returns the Response
\* decoded from its own exchange.
OwnForm(d) ==
    LET text == to_string(d.request).text
        payload == <<"b64(">> \o text \o <<")">>
        key == IF d.via = "LiqPayClient::send" THEN client.private_key
               ELSE block_client.private_key
    IN  /\ d.wire.url = CLIENT_URL
        /\ ParseForm(d.wire.body) =
             << [name |-> "data", value |-> payload],
                [name |-> "signature",
                 value |-> <<"b64(", BoundAlg(d.request.type) \o "(">>
                             \o key \o payload \o key \o <<")", ")">>] >>

OwnReply(d) ==
    /\ d.reply.kind = "response" => d.reply.body \in
         {OkBody(FieldValue(d.request, "order_id")[1][2]),
          FailBody(FieldValue(d.request, "order_id")[1][2]),
          ErrorBody(FieldValue(d.request, "order_id")[1][2]),
          GarbageBody}
    /\ d.outcome.kind = "Ok" =>
         /\ d.outcome.resp.order_id = Some(FieldValue(d.request, "order_id")[1][2])
         /\ d.outcome.resp.type = BoundResp(d.request.type)

Isolated ==
    \A i \in ClientSlots :
        /\ Sent(disp[i]) => OwnForm(disp[i])
        /\ disp[i].pc = "done" => OwnReply(disp[i])

C10_KeyFixedAndIsolated ==
    /\ []Isolated
    /\ [][client' = client /\ block_client' = block_client]_vars

C10_Witness ==
    \E i, j \in Slots :
        /\ i # j
        /\ disp[i].via = "LiqPayClient::send"
        /\ disp[j].via = "LiqPayClient::send"
        /\ disp[i].request # disp[j].request
        /\ disp[i].pc = "posted"
        /\ disp[j].pc = "done"
        /\ disp[j].outcome.kind = "Ok"


\* ---------------------------------------------------------------- C11
\* the two clients constructed with keys of their own; only what is sent
\* matters, so the exchange is followed up to the POST
InitKeys ==
    /\ \E k1 \in Keys, k2 \in Keys :
          client = new(k1) /\ block_client = new(k2)
    /\ disp = [i \in Slots |-> Idle]
    /\ built = NoBuilt
    /\ io = NoIo

NextKeys ==
    \/ CallClient
    \/ DoBuildFormData
    \/ DoPost

SpecKeys == InitKeys /\ [][NextKeys]_vars

\* C11: the private key is never sent in the clear: the URL is the fixed
\* one, the only form fields are data and signature, data is the key-free
\* payload and the key enters signature only under the hash; two dispatches
\* of the same request under different keys send the same URL and the same
\* data and differ only in signature.
IsHashed(value) ==
    /\ Len(value) >= 4
    /\ value[1] = "b64("
    /\ value[2] \in {"Sha1(", "Sha3_256("}
    /\ value[Len(value) - 1] = ")"
    /\ value[Len(value)] = ")"

C11_KeyOnlyUnderHash ==
    \A i \in Slots :
        LET d == disp[i]
            f == ParseForm(d.wire.body)
        IN  Sent(d) =>
              /\ d.wire.url = CLIENT_URL
              /\ {f[k].name : k \in 1..Len(f)} = {"data", "signature"}
              /\ ValueOf(f, DATA) = <<"b64(">> \o to_string(d.request).text \o <<")">>
              /\ IsHashed(ValueOf(f, SIGNATURE))
              /\ \A j \in Slots :
                   LET e == disp[j]
                       g == ParseForm(e.wire.body)
                   IN  (Sent(e) /\ e.request = d.request) =>
                         /\ e.wire.url = d.wire.url
                         /\ ValueOf(g, DATA) = ValueOf(f, DATA)
                         /\ (KeyOf(e) # KeyOf(d)) =>
                              ValueOf(g, SIGNATURE) # ValueOf(f, SIGNATURE)

C11_Witness ==
    \E i, j \in Slots :
        /\ Sent(disp[i])
        /\ Sent(disp[j])
        /\ disp[i].request = disp[j].request
        /\ KeyOf(disp[i]) = Secret
        /\ KeyOf(disp[j]) = OtherKey


\* ------------------------------------------------------------ builders
\* a value as i16 arithmetic leaves it (two's complement, 16 bits)
I16(n) == ((n + 32768) % 65536) - 32768

\* the offsets a caller can pass: browser_tz_compared_to_utc is an i8
Offsets == -128..127

\* the product taken in 8 bits, as if no operand were widened
browser_tz_i8(browser_tz_compared_to_utc) ==
    ((browser_tz_compared_to_utc * (-60) + 128) % 256) - 128

\* ThreeDsInfo::new, lines 70-71: minutes_in_hour: u8 = 60 and
\* (browser_tz_compared_to_utc as i16) * -(minutes_in_hour as i16)
browser_tz(browser_tz_compared_to_utc) ==
    I16(I16(browser_tz_compared_to_utc) * I16(-I16(60)))

\* ThreeDsInfo::new: both flags None, browser_tz computed from the offset
ThreeDsInfo_new(browser_tz_compared_to_utc) ==
    Value("ThreeDsInfo",
          << Req("notificationURL", Str("n")),
             Req("browserLanguage", Str("uk")),
             Req("threeDSRequestorURL", Str("r")),
             Req("browserScreenHeight", Str("600")),
             Req("browserColorDepth", Str("24")),
             Req("browserScreenWidth", Str("800")),
             Req("browserAcceptHeader", Str("a")),
             Req("browserTZ",
                 <<"i16", ToString(browser_tz(browser_tz_compared_to_utc))>>),
             Req("browserUserAgent", Str("u")),
             Nullable("browserJavascriptEnabled"),
             Nullable("browserJavaEnabled") >>)

\* a request value carries a version; ThreeDsInfo is a nested value
IsRequest(value) ==
    \E k \in DOMAIN value.fields : value.fields[k].name = "version"

\* the Option fields of a value (a required field is never skipped or None)
OptionFields(value) ==
    {k \in DOMAIN value.fields :
        value.fields[k].skip \/ value.fields[k].value = None}

\* every Option field has a builder method of its own
HasSetterAlways(type, name) == TRUE

\* The Option fields without a builder method of their own: compensation_id
\* and date of the report requests, the receiver fields of P2PCreditRequest,
\* every option of CreateTokenRequest and the agent fees of
\* RegisterCompanyRequest are set by constructors only; paytype and tavv of
\* CardPaymentRequest, and the static agent fee and its currency of
\* CreateCompanyRequest and EditCompanyRequest, are set by the two-field
\* methods below.  Every other Option field has a builder method.
HasSetter(type, name) ==
    /\ ~ /\ name \in {"compensation_id", "date"}
         /\ type \in {"CompensationReportRequest",
                      "CompensationReportFileRequest",
                      "informational::CompensationReportRequest",
                      "informational::CompensationReportFileRequest"}
    /\ ~ /\ type = "P2PCreditRequest"
         /\ name \in {"receiver_account", "receiver_mfo", "receiver_okpo",
                      "receiver_company", "receiver_card",
                      "receiver_card_token", "receiver_first_name",
                      "receiver_last_name"}
    /\ type # "CreateTokenRequest"
    /\ ~ /\ type = "RegisterCompanyRequest"
         /\ name \in {"amount_percent_agent", "amount_static_agent",
                      "currency_static_agent"}
    /\ ~ /\ type = "CardPaymentRequest"
         /\ name \in {"paytype", "tavv"}
    /\ ~ /\ type \in {"CreateCompanyRequest", "EditCompanyRequest"}
         /\ name \in {"amount_static_agent", "currency_static_agent"}

\* a builder method of a request: pub fn name(mut self, v) -> Self, which
\* sets its own field and hands the value back; it also resets the version
SetterResetsVersion(name) ==
    /\ IsRequest(built.value)
    /\ Len(built.calls) < MaxCalls
    /\ \E k \in OptionFields(built.value) : built.value.fields[k].name = name
    /\ HasSetter(built.value.type, name)
    /\ built' = [value |-> SetField(SetField(built.value, name, Str("x")),
                                    "version", Str("7")),
                 calls |-> Append(built.calls, name)]
    /\ UNCHANGED <<client, block_client, disp, io>>

\* a builder method of a request: pub fn name(mut self, v) -> Self, which
\* sets its own field and hands the value back
Setter(name) ==
    /\ IsRequest(built.value)
    /\ Len(built.calls) < MaxCalls
    /\ \E k \in OptionFields(built.value) : built.value.fields[k].name = name
    /\ HasSetter(built.value.type, name)
    /\ built' = [value |-> SetField(built.value, name, Str("x")),
                 calls |-> Append(built.calls, name)]
    /\ UNCHANGED <<client, block_client, disp, io>>

\* ThreeDsInfo::disable_java_script (verification/mpi.rs line 89)
disable_java_script ==
    /\ built.value.type = "ThreeDsInfo"
    /\ Len(built.calls) < MaxCalls
    /\ built' = [value |-> SetField(built.value, "browserJavaEnabled", Bool("false")),
                 calls |-> Append(built.calls, "disable_java_script")]
    /\ UNCHANGED <<client, block_client, disp, io>>

\* ThreeDsInfo::enable_java (verification/mpi.rs line 95)
enable_java ==
    /\ built.value.type = "ThreeDsInfo"
    /\ Len(built.calls) < MaxCalls
    /\ built' = [value |-> SetField(built.value, "browserJavaEnabled", Bool("true")),
                 calls |-> Append(built.calls, "enable_java")]
    /\ UNCHANGED <<client, block_client, disp, io>>

\* the token values a caller passes to a wallet setter
Tavvs == {"t1", "t2"}

\* the four wallet setters of CardPaymentRequest and the PayType each hands
\* to the private tavv method, by the PayType's serde name
WalletPayType ==
    [apple_pay_type |-> "apay",
     apple_pay_type_tavv |-> "apay_tavv",
     google_pay_type |-> "gpay",
     google_pay_type_tavv |-> "apay_tavv"]

\* a call of a wallet setter as the call history records it
WalletCall(method, tavv) == method \o "(" \o tavv \o ")"

\* CardPaymentRequest::apple_pay_type, ::apple_pay_type_tavv,
\* ::google_pay_type, ::google_pay_type_tavv: each is
\* self.tavv(tavv, PayType::..), which assigns pay_type and tavv
wallet(method, tavv) ==
    /\ built.value.type = "CardPaymentRequest"
    /\ Len(built.calls) < MaxCalls
    /\ built' = [value |-> SetField(SetField(built.value, "paytype",
                                             Str(WalletPayType[method])),
                                    "tavv", Str(tavv)),
                 calls |-> Append(built.calls, WalletCall(method, tavv))]
    /\ UNCHANGED <<client, block_client, disp, io>>

\* CreateTokenRequest::unique: action = CreateUniqueToken and
\* expiration_date (written expired_date) = Some(..)
unique ==
    /\ built.value.type = "CreateTokenRequest"
    /\ Len(built.calls) < MaxCalls
    /\ built' = [value |-> SetField(SetField(built.value, "action",
                                             Str("token_create_unique")),
                                    "expired_date", Str("x")),
                 calls |-> Append(built.calls, "unique")]
    /\ UNCHANGED <<client, block_client, disp, io>>

\* amount_static_agent that sets the fee without its currency
amount_static_agent_alone ==
    /\ built.value.type \in {"CreateCompanyRequest", "EditCompanyRequest"}
    /\ Len(built.calls) < MaxCalls
    /\ built' = [value |-> SetField(built.value, "amount_static_agent",
                                    F64("10.0")),
                 calls |-> Append(built.calls, "amount_static_agent")]
    /\ UNCHANGED <<client, block_client, disp, io>>

\* CreateCompanyRequest::amount_static_agent and
\* EditCompanyRequest::amount_static_agent(commission, currency)
amount_static_agent ==
    /\ built.value.type \in {"CreateCompanyRequest", "EditCompanyRequest"}
    /\ Len(built.calls) < MaxCalls
    /\ built' = [value |-> SetField(SetField(built.value,
                                             "amount_static_agent",
                                             F64("10.0")),
                                    "currency_static_agent", Str("UAH")),
                 calls |-> Append(built.calls, "amount_static_agent")]
    /\ UNCHANGED <<client, block_client, disp, io>>

\* a caller constructs the browser information of a 3DS verification
ThreeDsInfo_new_call(browser_tz_compared_to_utc) ==
    /\ built = NoBuilt
    /\ built' = [value |-> ThreeDsInfo_new(browser_tz_compared_to_utc),
                 calls |-> <<>>]
    /\ UNCHANGED <<client, block_client, disp, io>>

\* serde_json::to_string of the value as it stands
Serialize ==
    /\ LET r == to_string(built.value)
       IN  io' = [NoIo EXCEPT !.text = r.text, !.ok = r.ok, !.done = TRUE]
    /\ UNCHANGED <<client, block_client, disp, built>>

FieldNames ==
    UNION {{v.fields[k].name : k \in DOMAIN v.fields} : v \in Constructed}

InitBuild ==
    /\ client = new(Secret)
    /\ block_client = new(Secret)
    /\ disp = [i \in Slots |-> Idle]
    /\ \E v \in Constructed \cup {ThreeDsInfo_new(2)} :
          built = [value |-> v, calls |-> <<>>]
    /\ io = NoIo

NextBuild ==
    \/ \E name \in FieldNames : Setter(name)
    \/ \E method \in DOMAIN WalletPayType, tavv \in Tavvs : wallet(method, tavv)
    \/ unique
    \/ amount_static_agent
    \/ disable_java_script
    \/ enable_java
    \/ Serialize

SpecBuild == InitBuild /\ [][NextBuild]_vars

\* constructing a ThreeDsInfo from any offset, then its builder calls
NextThreeDs ==
    \/ \E o \in Offsets : ThreeDsInfo_new_call(o)
    \/ disable_java_script
    \/ enable_java
    \/ Serialize

SpecThreeDs == InitTraits /\ [][NextThreeDs]_vars

\* ---------------------------------------------------------------- C12
\* C12: a value none of whose optional fields is set serializes to a JSON
\* text that has none of the optional keys (an absent option is omitted,
\* never written as null).
NoOptionSet(b) ==
    /\ b.calls = <<>>
    /\ \A k \in OptionFields(b.value) : b.value.fields[k].value = None

C12_AbsentOmitted ==
    (io.done /\ io.ok /\ NoOptionSet(built)) =>
        \A k \in OptionFields(built.value) :
            JsonGet(io.text, built.value.fields[k].name) = None

\* ---------------------------------------------------------------- C13
\* C13: every request type has exactly one LiqPayRequest binding, so the
\* response type a dispatch decodes into and the algorithm it signs with
\* are determined by the request type.
C13_ExactlyOneBinding ==
    IsRequest(built.value) =>
        /\ Cardinality(BindingsOf(built.value.type)) = 1
        /\ \A b \in BindingsOf(built.value.type) :
              /\ b.response = BoundResp(built.value.type)
              /\ b.alg = BoundAlg(built.value.type)

C13_Witness ==
    /\ built.value.type = "P2PCompensationReportFileRequest"
    /\ BoundResp(built.value.type) = "CompensationReportFileResposne"
    /\ BoundResp("CompensationReportFileRequest") = "CompensationReportFileResposne"
    /\ io.done

\* ---------------------------------------------------------------- C14
\* C14: after any constructor and any builder calls a request of version
\* "3" is bound to Sha1 and a request of version "7" to Sha3_256, and no
\* builder call changes the version.
VersionOf(value) == FieldValue(value, "version")[1][2]

VersionMatchesAlg ==
    IsRequest(built.value) =>
        /\ VersionOf(built.value) \in {"3", "7"}
        /\ (VersionOf(built.value) = "3") <=> (BoundAlg(built.value.type) = "Sha1")
        /\ (VersionOf(built.value) = "7") <=> (BoundAlg(built.value.type) = "Sha3_256")

C14_VersionMatchesAlg ==
    /\ []VersionMatchesAlg
    /\ [][IsRequest(built.value) =>
            VersionOf(built'.value) = VersionOf(built.value)]_vars

C14_Witness ==
    /\ built.value.type = "InvoiceUnitsRequest"
    /\ VersionOf(built.value) = "3"
    /\ BoundAlg(built.value.type) = "Sha1"
    /\ built.calls # <<>>

\* ---------------------------------------------------------------- C20
\* C20: disable_java_script sets browserJavascriptEnabled to false and
\* leaves the Java flag alone, enable_java sets only browserJavaEnabled to
\* true; after both, in either order, JavaScript is disabled and Java is
\* enabled.
Called(method) == \E k \in DOMAIN built.calls : built.calls[k] = method

C20_JavaScriptDisabled ==
    built.value.type = "ThreeDsInfo" =>
        LET js == FieldValue(built.value, "browserJavascriptEnabled")
            java == FieldValue(built.value, "browserJavaEnabled")
        IN  /\ Called("disable_java_script") => js = Some(Bool("false"))
            /\ ~Called("disable_java_script") => js = None
            /\ Called("enable_java") => java = Some(Bool("true"))
            /\ ~Called("enable_java") => java = None


\* ------------------------------------------------- decoding a response
\* the status values the doc comment of a response's status field lists
DocumentedStatuses(resp_type) ==
    CASE resp_type = "informational::StatusResponse" ->
           {"error", "failure", "reversed", "subscribed", "success",
            "unsubscribed", "3ds_verify", "captcha_verify", "cvv_verify",
            "ivr_verify", "otp_verify", "password_verify", "phone_verify",
            "pin_verify", "receiver_verify", "sender_verify",
            "senderapp_verify", "wait_accept", "wait_secure", "wait_qr",
            "p24_verify", "mp_verify", "cash_wait", "hold_wait",
            "invoice_wait", "prepared", "processing", "wait_card",
            "wait_compensation", "wait_lc", "wait_reserve", "try_again"}
      [] resp_type = "FundsBlockingResponse" ->
           {"error", "failure", "reversed", "success", "3ds_verify",
            "cvv_verify", "otp_verify", "receiver_verify", "sender_verify",
            "hold_wait", "wait_accept", "wait_secure"}
      [] OTHER -> {}

\* the bodies of the gateway: result ok with a status
StatusBody(status) ==
    <<"{", "result", "str", "ok", "status", "str", status, "}">>

\* the HTTP exchange of a dispatched request hands a body to the client
Receive(status) ==
    /\ io = NoIo
    /\ status \in {"success"} \cup DocumentedStatuses(BoundResp(built.value.type))
    /\ io' = [NoIo EXCEPT !.text = StatusBody(status)]
    /\ UNCHANGED <<client, block_client, disp, built>>

\* response.json::<Resp>() with the response type bound to the request
Decode ==
    /\ io.text # <<>>
    /\ ~io.done
    /\ LET j == from_json(BoundResp(built.value.type), io.text)
       IN  io' = [io EXCEPT !.result = j.resp, !.ok = j.ok, !.done = TRUE]
    /\ UNCHANGED <<client, block_client, disp, built>>

InitDecode ==
    /\ client = new(Secret)
    /\ block_client = new(Secret)
    /\ disp = [i \in Slots |-> Idle]
    /\ \E v \in Constructed : built = [value |-> v, calls |-> <<>>]
    /\ io = NoIo

NextDecode ==
    \/ \E status \in StatusNames \cup DocumentedStatuses("informational::StatusResponse") :
          Receive(status)
    \/ Decode

SpecDecode == InitDecode /\ [][NextDecode]_vars

\* ---------------------------------------------------------------- C15
\* C15: whatever request was dispatched, the body {"result":"ok",
\* "status":"success"} decodes into the bound response type, with result
\* Ok, status Success and every optional field None.
C15_StubBodyDecodes ==
    (io.done /\ io.text = StatusBody("success")) =>
        /\ io.ok
        /\ io.result.type = BoundResp(built.value.type)
        /\ io.result.result = "ok"
        /\ io.result.status = "success"
        /\ io.result.order_id = None
        /\ io.result.error_code = None
        /\ io.result.error_description = None

\* ---------------------------------------------------------------- C19
\* C19: a body whose status is one the response's documentation lists
\* decodes into a Response, not into a decode error.
C19_DocumentedStatusAccepted ==
    (/\ io.done
     /\ JsonGet(io.text, "status")[1][2]
           \in DocumentedStatuses(BoundResp(built.value.type))) => io.ok


\* ------------------------------------------- the non-blocking dispatch
\* The future of LiqPayClient::send / LiqPayRequest::send_async as the
\* executor sees it: one action per poll, a poll running the body from
\* where it stands to the next .await that is not ready.  pc "called" is
\* the future not yet polled, "await_send" and "await_json" are the two
\* .await points, "dropped" is the future dropped before it completed.
AsyncVias == {"LiqPayClient::send", "LiqPayRequest::send_async"}
AsyncRequests == {CardPaymentRequest_new("pk", "10.0", "A1"), CallerRequest}

Suspended(d) == d.pc \in {"await_send", "await_json"}

\* a first poll that suspends once the request is signed, before the POST
PollStartYield(i) ==
    LET d == disp[i]
        e == encode_request(d.request)
        s == sign(BoundAlg(d.request.type), KeyOf(d), e.encoded_request)
    IN  /\ d.pc = "called"
        /\ e.ok
        /\ disp' = [disp EXCEPT ![i] =
                      [d EXCEPT !.pc = "await_send",
                                !.encoded_request = e.encoded_request,
                                !.encoded_signature = s,
                                !.trace = @ \o <<"encode", "sign">>]]
        /\ UNCHANGED <<client, block_client, built, io>>

\* the first poll: client.rs lines 63-69 / traits.rs lines 85-99 hold no
\* .await before send(), so the poll serializes, encodes, signs, builds the
\* form and issues the POST, or returns the serialization error
PollStart(i) ==
    LET d == disp[i]
        e == encode_request(d.request)
        s == sign(BoundAlg(d.request.type), KeyOf(d), e.encoded_request)
    IN  /\ d.pc = "called"
        /\ IF e.ok
           THEN \E f \in Forms(d.via, e.encoded_request, s) :
                  disp' = [disp EXCEPT ![i] =
                             [d EXCEPT !.pc = "await_send",
                                       !.encoded_request = e.encoded_request,
                                       !.encoded_signature = s,
                                       !.form_data = f,
                                       !.posts = @ + 1,
                                       !.wire = [url |-> CLIENT_URL,
                                                 body |-> FormUrlEncode(f)],
                                       !.trace = @ \o <<"encode", "sign", "form", "post">>]]
           ELSE disp' = [disp EXCEPT ![i] =
                           [d EXCEPT !.pc = "done",
                                     !.outcome = Err("serde_json::Error", "Data"),
                                     !.trace = Append(@, "encode")]]
        /\ UNCHANGED <<client, block_client, built, io>>

\* the transport completes the HTTP exchange of a suspended dispatch
Transport(i) ==
    LET d == disp[i]
    IN  /\ d.pc = "await_send"
        /\ d.reply = NoReply
        /\ \E r \in Replies(d.wire.body) :
              disp' = [disp EXCEPT ![i] = [d EXCEPT !.reply = r]]
        /\ UNCHANGED <<client, block_client, built, io>>

\* the poll after send() came back: `.await?` returns the transport error
\* or goes on to json(), the second .await
PollSend(i) ==
    LET d == disp[i]
    IN  /\ d.pc = "await_send"
        /\ d.reply # NoReply
        /\ disp' = [disp EXCEPT ![i] =
                      IF d.reply.kind = "send_error"
                      THEN [d EXCEPT !.pc = "done",
                                     !.outcome = Outcome(d.via, d.request.type, d.reply)]
                      ELSE [d EXCEPT !.pc = "await_json"]]
        /\ UNCHANGED <<client, block_client, built, io>>

\* the poll after the body was read: json() decodes it, Ok or `?`
PollJson(i) ==
    LET d == disp[i]
    IN  /\ d.pc = "await_json"
        /\ disp' = [disp EXCEPT ![i] =
                      [d EXCEPT !.pc = "done",
                                !.outcome = Outcome(d.via, d.request.type, d.reply),
                                !.trace = Append(@, "decode")]]
        /\ UNCHANGED <<client, block_client, built, io>>

\* the caller drops the future before it completed: its locals (form_data,
\* the key moved into send_async, the pending exchange) are dropped with
\* it and no Result is ever produced; what was posted stays posted
Drop(i) ==
    LET d == disp[i]
    IN  /\ d.pc \in {"called", "await_send", "await_json"}
        /\ disp' = [disp EXCEPT ![i] =
                      [d EXCEPT !.pc = "dropped",
                                !.key_arg = <<>>,
                                !.encoded_request = <<>>,
                                !.encoded_signature = <<>>,
                                !.form_data = <<>>,
                                !.reply = NoReply]]
        /\ UNCHANGED <<client, block_client, built, io>>

NextAsync ==
    \/ \E i \in Slots, via \in AsyncVias, req \in AsyncRequests, k \in TraitKeys :
          Call(i, via, req, k)
    \/ \E i \in Slots : PollStart(i)
    \/ \E i \in Slots : Transport(i)
    \/ \E i \in Slots : PollSend(i)
    \/ \E i \in Slots : PollJson(i)
    \/ \E i \in Slots : Drop(i)

SpecAsync == InitTraits /\ [][NextAsync]_vars

\* ---------------------------------------------------------------- C16
\* C16: a non-blocking dispatch has no suspension point between encoding,
\* signing and issuing the POST: nothing has run before the first poll,
\* wherever the dispatch is suspended the signed form has been posted, and
\* a suspended dispatch moves on only once the transport has completed
\* the exchange.
SuspendsOnlyAtNetwork ==
    \A i \in Slots :
        LET d == disp[i]
        IN  /\ (d.pc = "called") => (d.trace = <<>> /\ d.posts = 0)
            /\ (d.encoded_request # <<>>) =>
                  (d.encoded_signature # <<>> /\ d.form_data # <<>> /\ d.posts = 1)
            /\ Suspended(d) =>
                  /\ d.posts = 1
                  /\ d.wire.url = CLIENT_URL
                  /\ SubSeq(d.trace, 1, 4) = <<"encode", "sign", "form", "post">>
                  /\ ValueOf(ParseForm(d.wire.body), SIGNATURE) = d.encoded_signature

C16_SuspendsOnlyAtNetwork ==
    /\ []SuspendsOnlyAtNetwork
    /\ [][\A i \in Slots :
            (Suspended(disp[i]) /\ disp'[i].pc \notin {disp[i].pc, "dropped"})
                => disp[i].reply # NoReply]_vars

C16_Witness ==
    \E i, j \in Slots :
        /\ disp[i].pc = "await_send"
        /\ disp[i].reply = NoReply
        /\ disp[i].posts = 1
        /\ disp[j].pc = "done"
        /\ disp[j].outcome.kind = "Ok"
        /\ disp[j].via \in AsyncVias

\* ---------------------------------------------------------------- C17
\* C17: a non-blocking dispatch cancelled after its POST may have been
\* sent retains no signing material and hands the caller a distinct
\* cancelled outcome, neither success nor failure.
C17_CancelledOutcome ==
    \A i \in Slots :
        LET d == disp[i]
        IN  (d.pc = "dropped" /\ d.posts > 0) =>
              /\ d.encoded_request = <<>>
              /\ d.encoded_signature = <<>>
              /\ d.form_data = <<>>
              /\ d.key_arg = <<>>
              /\ d.outcome.kind = "Cancelled"


LastCall(b) == b.calls[Len(b.calls)]

\* the options a call names, by the method's name and documentation
Named(call) ==
    IF call = "unique" THEN {"expired_date"}
    ELSE IF call = "amount_static_agent"
         THEN {"amount_static_agent", "currency_static_agent"}
    ELSE IF call = "disable_java_script" THEN {"browserJavascriptEnabled"}
    ELSE IF call = "enable_java" THEN {"browserJavaEnabled"}
    ELSE IF \E m \in DOMAIN WalletPayType, t \in Tavvs : call = WalletCall(m, t)
         THEN {"paytype", "tavv"}
    ELSE {call}

C21_SetterFrame ==
    [][built'.calls # built.calls =>
          \A k \in DOMAIN built.value.fields :
              built.value.fields[k].name \notin Named(LastCall(built')) =>
                  built'.value.fields[k] = built.value.fields[k]]_vars

\* ---------------------------------------------------------------- C22
\* C22: the body of every POST is data=<payload>&signature=<signature>,
\* data first, in every dispatch implementation.
C22_DataFirst ==
    \A i \in Slots :
        LET d == disp[i]
        IN  Sent(d) =>
              d.wire.body =
                  <<DATA, "=", "pct(">> \o d.encoded_request \o <<")", "&">>
                  \o <<SIGNATURE, "=", "pct(">> \o d.encoded_signature \o <<")">>

\* ---------------------------------------------------------------- C23
\* C23: after wallet setter calls on a CardPaymentRequest, tavv is the
\* argument of the last one and paytype is the wallet its name says:
\* apple_pay_type apay, apple_pay_type_tavv apay_tavv, google_pay_type
\* gpay, google_pay_type_tavv gpay_tavv.
NamedPayType ==
    [apple_pay_type |-> "apay",
     apple_pay_type_tavv |-> "apay_tavv",
     google_pay_type |-> "gpay",
     google_pay_type_tavv |-> "gpay_tavv"]

WalletCalls(b) ==
    {k \in DOMAIN b.calls :
        \E m \in DOMAIN NamedPayType, t \in Tavvs : b.calls[k] = WalletCall(m, t)}

C23_WalletSetters ==
    (built.value.type = "CardPaymentRequest" /\ WalletCalls(built) # {}) =>
        LET k == CHOOSE n \in WalletCalls(built) :
                     \A m \in WalletCalls(built) : m <= n
        IN  \E m \in DOMAIN NamedPayType, t \in Tavvs :
                /\ built.calls[k] = WalletCall(m, t)
                /\ FieldValue(built.value, "paytype") = Some(Str(NamedPayType[m]))
                /\ FieldValue(built.value, "tavv") = Some(Str(t))

\* ---------------------------------------------------------------- C25
\* C25: an InvoiceUnitsRequest has action invoice_units_get_list_by_lang
\* exactly when a language is present and invoice_units_get_list exactly
\* when none is, after any constructor and any builder calls.
ActionOf(value) == FieldValue(value, "action")[1][2]

C25_ActionMatchesLanguage ==
    built.value.type = "InvoiceUnitsRequest" =>
        /\ (ActionOf(built.value) = "invoice_units_get_list_by_lang")
              <=> (FieldValue(built.value, "language") # None)
        /\ (ActionOf(built.value) = "invoice_units_get_list")
              <=> (FieldValue(built.value, "language") = None)

\* ---------------------------------------------------------------- C26
\* C26: in CreateCompanyRequest, EditCompanyRequest and
\* RegisterCompanyRequest amount_static_agent is present if and only if
\* currency_static_agent is, after any constructor and any builder calls.
C26_StaticAgentTogether ==
    built.value.type \in {"CreateCompanyRequest", "EditCompanyRequest",
                          "RegisterCompanyRequest"} =>
        (FieldValue(built.value, "amount_static_agent") # None)
            <=> (FieldValue(built.value, "currency_static_agent") # None)

C26_Witness ==
    /\ built.value.type = "EditCompanyRequest"
    /\ Called("amount_static_agent")
    /\ Len(built.calls) = 2
    /\ FieldValue(built.value, "amount_static_agent") = Some(F64("10.0"))
    /\ FieldValue(built.value, "currency_static_agent") = Some(Str("UAH"))

\* ---------------------------------------------------------------- C27
\* C27: every CreateTokenRequest has is_credit = not is_debit; unique
\* turns the action token_create into token_create_unique and sets the
\* expiration date, and changes no other field.
CreditIsNotDebit ==
    built.value.type = "CreateTokenRequest" =>
        /\ FieldValue(built.value, "is_credit")[1][2]
              = Not(FieldValue(built.value, "is_debit")[1][2])
        /\ ActionOf(built.value) =
              (IF Called("unique") THEN "token_create_unique" ELSE "token_create")
        /\ Called("unique") <=> (FieldValue(built.value, "expired_date") # None)

C27_CreditIsNotDebit ==
    /\ []CreditIsNotDebit
    /\ [][(built.value.type = "CreateTokenRequest"
             /\ built'.calls # built.calls) =>
            \A k \in DOMAIN built.value.fields :
                built.value.fields[k].name \notin {"action", "expired_date"} =>
                    built'.value.fields[k] = built.value.fields[k]]_vars

C27_Witness ==
    /\ built.value.type = "CreateTokenRequest"
    /\ built.calls = <<"unique">>
    /\ FieldValue(built.value, "is_debit") = Some(Bool("false"))
    /\ FieldValue(built.value, "is_credit") = Some(Bool("true"))
    /\ FieldValue(built.value, "card_cvv") # None
    /\ ActionOf(built.value) = "token_create_unique"

\* ---------------------------------------------------------------- C28
\* C28: a P2PCreditRequest names its receiver in exactly one way: by
\* receiver_card alone, by receiver_card_token alone, or by the four
\* fields receiver_account, receiver_mfo, receiver_okpo, receiver_company;
\* no builder call adds or removes a receiver field.
ReceiverFields ==
    {"receiver_account", "receiver_mfo", "receiver_okpo", "receiver_company",
     "receiver_card", "receiver_card_token"}

Receiver(value) == {n \in ReceiverFields : FieldValue(value, n) # None}

OneReceiver ==
    built.value.type = "P2PCreditRequest" =>
        Receiver(built.value) \in
            { {"receiver_card"}, {"receiver_card_token"},
              {"receiver_account", "receiver_mfo", "receiver_okpo",
               "receiver_company"} }

C28_OneReceiver ==
    /\ []OneReceiver
    /\ [][built.value.type = "P2PCreditRequest" =>
            Receiver(built'.value) = Receiver(built.value)]_vars

C28_Witness ==
    /\ built.value.type = "P2PCreditRequest"
    /\ Receiver(built.value) = {"receiver_account", "receiver_mfo",
                                "receiver_okpo", "receiver_company"}
    /\ built.calls = <<"taxed", "sender_city">>

\* ---------------------------------------------------------------- C29
\* C29: ThreeDsInfo::new stores browserTZ = -60 * offset for every i8
\* offset; the product fits the i16 field (between -7620 and 7680), so
\* the computation never wraps.
BrowserTzOf(value) == FieldValue(value, "browserTZ")[1][2]

C29_BrowserTz ==
    /\ [](built.value.type = "ThreeDsInfo" =>
            \E o \in Offsets :
                /\ BrowserTzOf(built.value) = ToString((-60) * o)
                /\ (-60) * o \in -7620..7680)
    /\ [][\A o \in Offsets :
            ThreeDsInfo_new_call(o) =>
                BrowserTzOf(built'.value) = ToString((-60) * o)]_vars

C29_Witness ==
    /\ built.value.type = "ThreeDsInfo"
    /\ BrowserTzOf(built.value) = "7680"
    /\ built.calls # <<>>


\* ---------------------------------------------------------------- C24
\* C24: a dispatch never looks at the HTTP status of the reply: a reply of
\* any status whose body parses as the bound response type gives
\* Ok(response), a reply of any status whose body does not parse gives a
\* decode error, and a transport error comes only from a failed exchange.
C24_StatusNotInspected ==
    \A i \in Slots :
        LET d == disp[i]
            j == from_json(BoundResp(d.request.type), d.reply.body)
        IN  d.pc = "done" =>
              /\ (d.reply.kind = "response" /\ j.ok) => d.outcome = Ok(j.resp)
              /\ (d.reply.kind = "response" /\ ~j.ok) =>
                     d.outcome = Err("reqwest::Error", "Decode")
              /\ (d.outcome = Err("reqwest::Error", "Request"))
                     <=> (d.reply.kind = "send_error")

C24_Witness ==
    \E i, j \in Slots :
        /\ disp[i].pc = "done"
        /\ disp[i].reply.status = 500
        /\ disp[i].outcome.kind = "Ok"
        /\ disp[j].pc = "done"
        /\ disp[j].reply.status = 404
        /\ disp[j].reply.body = GarbageBody
        /\ disp[j].outcome = Err("reqwest::Error", "Decode")

====
